---- MODULE Spec2Model ----
(***************************************************************************)
(* Verification model of ColaTourFareScraper: the fare-formula decoder,   *)
(* the flight-record assembler, the direction classifier and the baggage  *)
(* reconciler of data_cleaner.py, and the collection loop of              *)
(* task_controller.py that merges their results into rows.                *)
(*                                                                         *)
(* Text is a sequence of one-character strings.  The module language has  *)
(* no non-ASCII string literals, so a CJK or full-width character is      *)
(* written "uXXXX" with its code point; each is still ONE character of    *)
(* the text (one element of the sequence).                                *)
(***************************************************************************)
EXTENDS Integers, Sequences, FiniteSets, TLC

\* ------------------------------------------------------------------------
\* Characters
\* ------------------------------------------------------------------------
Digits == {"0", "1", "2", "3", "4", "5", "6", "7", "8", "9"}
UpperLetters == {"A", "B", "C", "D", "E", "F", "G", "H", "I", "J", "K", "L", "M",
                 "N", "O", "P", "Q", "R", "S", "T", "U", "V", "W", "X", "Y", "Z"}
LowerLetters == {"a", "b", "c", "d", "e", "f", "g", "h", "i", "j", "k", "l", "m",
                 "n", "o", "p", "q", "r", "s", "t", "u", "v", "w", "x", "y", "z"}
\* The CJK characters (all inside 一-龥) that occur in the texts:
\* 票 面 淨 價 折 扣 固 定 金 額 大 人 公 式 稅 總 售 斤 件
\* 去 回 程 經 濟 艙 台 北 東 京 舊 山 成
\* 小 時 分 鐘 三 約
CJK == {"u7968", "u9762", "u6DE8", "u50F9", "u6298", "u6263", "u56FA", "u5B9A",
        "u91D1", "u984D", "u5927", "u4EBA", "u516C", "u5F0F", "u7A05", "u7E3D",
        "u552E", "u65A4", "u4EF6",
        "u53BB", "u56DE", "u7A0B", "u7D93", "u6FDF", "u8259", "u53F0", "u5317",
        "u6771", "u4EAC", "u820A", "u5C71", "u6210",
        "u5C0F", "u6642", "u5206", "u9418", "u4E09", "u7D04"}
FWComma == "uFF0C"  \* full-width comma
FWColon == "uFF1A"  \* full-width colon
FWDash == "uFF0D"   \* full-width hyphen-minus
Space == " "
Newline == "\n"
Punct == {"(", ")", "[", "]", "*", "-", "+", "=", ".", ":", ",", "/", "_",
          FWComma, FWColon, FWDash}
Whitespace == {Space, Newline}
AllChars == Digits \cup UpperLetters \cup LowerLetters \cup CJK \cup Punct \cup Whitespace

\* Words of the fare dialog.
PiaoMian == <<"u7968", "u9762">>                    \* 票面
JingJia == <<"u6DE8", "u50F9">>                     \* 淨價
ZheKou == <<"u6298", "u6263">>                      \* 折扣
GuDingJinE == <<"u56FA", "u5B9A", "u91D1", "u984D">> \* 固定金額
DaRenGongShi == <<"u5927", "u4EBA", "u516C", "u5F0F">> \* 大人公式
ShuiJin == <<"u7A05", "u91D1">>                     \* 稅金
ZongShouJia == <<"u7E3D", "u552E", "u50F9">>        \* 總售價

\* ------------------------------------------------------------------------
\* Regular expressions as re.search / re.match run them: a pattern is a
\* sequence of items, matched left to right by backtracking, greedy items
\* trying the longest repetition first, lazy ones the shortest.
\* ------------------------------------------------------------------------
Unbounded == 1000000

\* Character classes of the patterns.
ReDigit == Digits                              \* \d, [0-9]
ReSpace == Whitespace                          \* \s
ReNum == Digits \cup {",", FWComma}            \* [\d,，]
ReHanAlpha == CJK \cup UpperLetters \cup LowerLetters   \* [一-龥A-Za-z]
ReWord == ReHanAlpha \cup Digits \cup {"_"}    \* \w
ReDot == AllChars \ {Newline}                  \* .
ReNonSpace == AllChars \ Whitespace            \* [^\s\r\n]

\* Items.  An item with ws = TRUE stands for \s* followed by the item; this is
\* used only where the item cannot begin with a whitespace character or, like
\* (.*), can match the empty text, so that the greedy \s* is never given back.
Cls(S, lo, hi) == <<[k |-> "cls", ws |-> FALSE, cls |-> S, min |-> lo, max |-> hi, lazy |-> FALSE]>>
ClsLazy(S, lo, hi) == <<[k |-> "cls", ws |-> FALSE, cls |-> S, min |-> lo, max |-> hi, lazy |-> TRUE]>>
Star(S) == Cls(S, 0, Unbounded)
Plus(S) == Cls(S, 1, Unbounded)
Maybe(S) == Cls(S, 0, 1)
One(S) == <<[k |-> "lit", ws |-> FALSE, w |-> <<S>>]>>
Ch(c) == <<[k |-> "lit", ws |-> FALSE, w |-> <<{c}>>]>>
UpperSeq == <<"A", "B", "C", "D", "E", "F", "G", "H", "I", "J", "K", "L", "M",
              "N", "O", "P", "Q", "R", "S", "T", "U", "V", "W", "X", "Y", "Z">>
LowerSeq == <<"a", "b", "c", "d", "e", "f", "g", "h", "i", "j", "k", "l", "m",
              "n", "o", "p", "q", "r", "s", "t", "u", "v", "w", "x", "y", "z">>
\* A letter under re.IGNORECASE.
IFold(c) ==
  IF c \in UpperLetters \cup LowerLetters
  THEN LET idx == CHOOSE i \in 1..26 : c = UpperSeq[i] \/ c = LowerSeq[i]
       IN {UpperSeq[idx], LowerSeq[idx]}
  ELSE {c}
Lit(w) == <<[k |-> "lit", ws |-> FALSE, w |-> [i \in 1..Len(w) |-> {w[i]}]]>>
LitI(w) == <<[k |-> "lit", ws |-> FALSE, w |-> [i \in 1..Len(w) |-> IFold(w[i])]]>>
Open(g) == <<[k |-> "open", ws |-> FALSE, g |-> g]>>
Close(g) == <<[k |-> "close", ws |-> FALSE, g |-> g]>>
OptGroup(sub) == <<[k |-> "opt", ws |-> FALSE, sub |-> sub]>>
Alt(a, b) == <<[k |-> "alt", ws |-> FALSE, subs |-> <<a, b>>]>>
Eos == <<[k |-> "eos", ws |-> FALSE]>>
WordB == <<[k |-> "wordb", ws |-> FALSE]>>   \* \b
\* \s* followed by the pattern p
Ws(p) == <<[Head(p) EXCEPT !.ws = TRUE]>> \o Tail(p)

MaxGroups == 5
NoCaps == [g \in 1..MaxGroups |-> <<0, 0>>]
ReFail == [ok |-> FALSE, start |-> 0, end |-> 0, caps |-> NoCaps]

SetMin(S) == CHOOSE a \in S : \A b \in S : a <= b
\* Number of consecutive characters of s from pos on that lie in S (at most hi).
RunLen(s, pos, S, hi) ==
  LET stops == {i \in pos..Len(s) : s[i] \notin S}
      run == IF stops = {} THEN Len(s) + 1 - pos ELSE SetMin(stops) - pos
  IN IF run > hi THEN hi ELSE run
\* Whether the word w (a sequence of character sets) stands in s at pos.
WordAt(s, pos, w) == pos + Len(w) - 1 <= Len(s) /\ \A i \in 1..Len(w) : s[pos + i - 1] \in w[i]

RECURSIVE ReMatchAt(_, _, _, _), ReTry(_, _, _, _, _, _, _)
\* The match of items at position at, or ReFail.
ReMatchAt(s, items, at, caps) ==
  IF items = <<>> THEN [ok |-> TRUE, start |-> 0, end |-> at, caps |-> caps]
  ELSE LET it == Head(items)
           rest == Tail(items)
           pos == IF it.ws THEN at + RunLen(s, at, ReSpace, Unbounded) ELSE at
       IN CASE it.k = "lit" ->
                 IF WordAt(s, pos, it.w) THEN ReMatchAt(s, rest, pos + Len(it.w), caps) ELSE ReFail
            [] it.k = "cls" ->
                 LET run == RunLen(s, pos, it.cls, it.max)
                 IN IF run < it.min THEN ReFail
                    ELSE IF run = it.min THEN ReMatchAt(s, rest, pos + run, caps)
                    ELSE IF it.lazy THEN ReTry(s, rest, pos, caps, it.min, run, 1)
                    ELSE ReTry(s, rest, pos, caps, run, it.min, -1)
            [] it.k = "open" ->
                 ReMatchAt(s, rest, pos, [caps EXCEPT ![it.g] = <<pos, pos>>])
            [] it.k = "close" ->
                 ReMatchAt(s, rest, pos, [caps EXCEPT ![it.g] = <<caps[it.g][1], pos>>])
            [] it.k = "opt" ->
                 LET with == ReMatchAt(s, it.sub \o rest, pos, caps)
                 IN IF with.ok THEN with ELSE ReMatchAt(s, rest, pos, caps)
            [] it.k = "alt" ->
                 LET first == ReMatchAt(s, it.subs[1] \o rest, pos, caps)
                 IN IF first.ok THEN first ELSE ReMatchAt(s, it.subs[2] \o rest, pos, caps)
            [] it.k = "eos" ->
                 \* $ : at the end, or just before a final newline
                 IF pos = Len(s) + 1 \/ (pos = Len(s) /\ s[pos] = Newline)
                 THEN ReMatchAt(s, rest, pos, caps) ELSE ReFail
            [] it.k = "wordb" ->
                 \* \b : exactly one of the characters around the position is a \w
                 IF (pos > 1 /\ s[pos - 1] \in ReWord) # (pos <= Len(s) /\ s[pos] \in ReWord)
                 THEN ReMatchAt(s, rest, pos, caps) ELSE ReFail
\* Repetition counts from k to last in steps of step (-1: greedy, 1: lazy).
ReTry(s, rest, pos, caps, k, last, step) ==
  LET r == ReMatchAt(s, rest, pos + k, caps)
  IN IF r.ok THEN r
     ELSE IF k = last THEN ReFail
     ELSE ReTry(s, rest, pos, caps, k + step, last, step)

ReSearchFrom(s, items, from) ==
  LET starts == {p \in from..(Len(s) + 1) : ReMatchAt(s, items, p, NoCaps).ok}
  IN IF starts = {} THEN ReFail
     ELSE [ReMatchAt(s, items, SetMin(starts), NoCaps) EXCEPT !.start = SetMin(starts)]
\* re.search(pattern, s): the leftmost match.
ReSearch(s, items) == ReSearchFrom(s, items, 1)
\* re.search of a pattern that starts with ^ (no MULTILINE), and re.match.
ReMatch(s, items) ==
  LET r == ReMatchAt(s, items, 1, NoCaps) IN IF r.ok THEN [r EXCEPT !.start = 1] ELSE ReFail
\* m.group(g) (the empty text for a group that did not take part).
Group(s, m, g) == SubSeq(s, m.caps[g][1], m.caps[g][2] - 1)

\* ------------------------------------------------------------------------
\* Python text and number primitives
\* ------------------------------------------------------------------------
\* None where a text is expected: a value that is no text (its one element is
\* not a character).
PyNone == <<"None">>
\* str.strip()
RECURSIVE LStrip(_), RStrip(_)
LStrip(s) == IF s # <<>> /\ Head(s) \in Whitespace THEN LStrip(Tail(s)) ELSE s
RStrip(s) ==
  IF s # <<>> /\ s[Len(s)] \in Whitespace THEN RStrip(SubSeq(s, 1, Len(s) - 1)) ELSE s
Strip(s) == LStrip(RStrip(s))
\* re.sub of a character class by "", and str.replace(c, "")
RECURSIVE RemoveChars(_, _)
RemoveChars(s, S) ==
  IF s = <<>> THEN <<>>
  ELSE (IF Head(s) \in S THEN <<>> ELSE <<Head(s)>>) \o RemoveChars(Tail(s), S)
\* str.replace(a, b) for single characters
ReplaceChar(s, a, b) == [i \in 1..Len(s) |-> IF s[i] = a THEN b ELSE s[i]]

DigitVal(c) == CHOOSE d \in 0..9 : <<"0", "1", "2", "3", "4", "5", "6", "7", "8", "9">>[d + 1] = c
RECURSIVE DigitsToNat(_)
DigitsToNat(ds) ==
  IF ds = <<>> THEN 0 ELSE 10 * DigitsToNat(SubSeq(ds, 1, Len(ds) - 1)) + DigitVal(ds[Len(ds)])
AllDigits(s) == s # <<>> /\ \A i \in 1..Len(s) : s[i] \in Digits
\* Digits with single underscores between them, as int() and float() accept.
DigitGroup(s) ==
  /\ s # <<>>
  /\ s[1] \in Digits /\ s[Len(s)] \in Digits
  /\ \A i \in 1..Len(s) : s[i] \in Digits \cup {"_"}
  /\ \A i \in 1..(Len(s) - 1) : ~(s[i] = "_" /\ s[i + 1] = "_")
HasSign(s) == s # <<>> /\ s[1] \in {"-", "+"}
Unsigned(s) == IF HasSign(s) THEN Tail(s) ELSE s
Signed(s, n) == IF HasSign(s) /\ s[1] = "-" THEN 0 - n ELSE n
\* int(text) succeeds
IntOk(text) == DigitGroup(Unsigned(Strip(text)))
IntVal(text) == Signed(Strip(text), DigitsToNat(RemoveChars(Unsigned(Strip(text)), {"_"})))
\* Position of the decimal point (0: none).
PointAt(s) == IF \E i \in 1..Len(s) : s[i] = "." THEN CHOOSE i \in 1..Len(s) : s[i] = "." /\ \A j \in 1..(i - 1) : s[j] # "." ELSE 0
IntPart(s) == IF PointAt(s) = 0 THEN s ELSE SubSeq(s, 1, PointAt(s) - 1)
FracPart(s) == IF PointAt(s) = 0 THEN <<>> ELSE SubSeq(s, PointAt(s) + 1, Len(s))
\* float(text) succeeds: [sign] digits [. [digits]] or [sign] . digits (the texts
\* of this model carry no exponent, "inf" or "nan").
FloatOk(text) ==
  LET u == Unsigned(Strip(text))
  IN /\ IntPart(u) = <<>> \/ DigitGroup(IntPart(u))
     /\ FracPart(u) = <<>> \/ DigitGroup(FracPart(u))
     /\ IntPart(u) # <<>> \/ FracPart(u) # <<>>
\* A float value is kept exactly, as neg * m / 10^e with no trailing zero in m.
RECURSIVE DecNorm(_, _, _)
DecNorm(neg, m, e) ==
  IF m = 0 THEN [neg |-> FALSE, m |-> 0, e |-> 0]
  ELSE IF e > 0 /\ m % 10 = 0 THEN DecNorm(neg, m \div 10, e - 1)
  ELSE [neg |-> neg, m |-> m, e |-> e]
DecZero == DecNorm(FALSE, 0, 0)
FloatVal(text) ==
  LET s == Strip(text)
      u == Unsigned(s)
      ip == RemoveChars(IntPart(u), {"_"})
      fp == RemoveChars(FracPart(u), {"_"})
  IN DecNorm(HasSign(s) /\ s[1] = "-", DigitsToNat(ip \o fp), Len(fp))
\* int(float(text)): the integer part, truncated toward zero
IntOfFloat(text) ==
  LET s == Strip(text) IN Signed(s, DigitsToNat(RemoveChars(IntPart(Unsigned(s)), {"_"})))

\* parse_int without the float fallback.
parse_int_IntOnly(text) ==
  IF text = PyNone THEN 0
  ELSE LET cleaned == RemoveChars(text, {Space, ",", FWComma})
       IN IF IntOk(cleaned) THEN IntVal(cleaned) ELSE 0
\* parse_int with only the half-width comma removed.
parse_int_HalfWidthOnly(text) ==
  IF text = PyNone THEN 0
  ELSE LET cleaned == RemoveChars(text, {Space, ","})
       IN IF IntOk(cleaned) THEN IntVal(cleaned)
          ELSE IF FloatOk(cleaned) THEN IntOfFloat(cleaned)
          ELSE 0
\* PriceDataExtractor.parse_int
parse_int(text) ==
  IF text = PyNone THEN 0
  ELSE LET cleaned == RemoveChars(text, {Space, ",", FWComma})
       IN IF IntOk(cleaned) THEN IntVal(cleaned)
          ELSE IF FloatOk(cleaned) THEN IntOfFloat(cleaned)
          ELSE 0
\* PriceDataExtractor.parse_float
parse_float(text) ==
  IF text = PyNone THEN DecZero
  ELSE LET cleaned == RemoveChars(ReplaceChar(text, FWComma, ","), {","})
       IN IF FloatOk(cleaned) THEN FloatVal(cleaned) ELSE DecZero

\* ------------------------------------------------------------------------
\* FareFormulaDecoder: the patterns of extract_and_clean_price_data
\* ------------------------------------------------------------------------
ReDecimal == Plus(ReDigit) \o OptGroup(Ch(".") \o Plus(ReDigit))  \* [0-9]+(?:\.[0-9]+)?
ReBasis == Alt(Lit(PiaoMian), Lit(JingJia))                       \* (票面|淨價)
\* \[\s*KP\s*\d+\s*\]
ReKP == Ch("[") \o Ws(LitI(<<"K", "P">>)) \o Ws(Plus(ReDigit)) \o Ws(Ch("]"))
\* \s*\*\s*F\s*\+\s*TAX\s*N\s*\*\s*F\s*\+\s*固定金額\s*[-]?N\s*=\s*N\s*$
ReShapeTail ==
  Ws(Ch("*")) \o Ws(ReDecimal) \o Ws(Ch("+")) \o Ws(LitI(<<"T", "A", "X">>)) \o Ws(Plus(ReNum))
  \o Ws(Ch("*")) \o Ws(ReDecimal) \o Ws(Ch("+")) \o Ws(Lit(GuDingJinE)) \o Ws(Maybe({"-"}))
  \o Plus(ReNum) \o Ws(Ch("=")) \o Ws(Plus(ReNum)) \o Ws(Eos)
\* ^\(\s*(票面|淨價)\s*N\s*\*\s*\[\s*KP\s*\d+\s*\]\s*-\s*折扣\s*N\s*\) and the tail
type1_pattern ==
  Ch("(") \o Ws(ReBasis) \o Ws(Plus(ReNum)) \o Ws(Ch("*")) \o Ws(ReKP) \o Ws(Ch("-"))
  \o Ws(Lit(ZheKou)) \o Ws(Plus(ReNum)) \o Ws(Ch(")")) \o ReShapeTail
\* ^\(\s*\(\s*(票面|淨價)\s*N\s*-\s*折扣\s*N\s*\)\s*\*\s*\[\s*KP\s*\d+\s*\]\s*\) and the tail
type2_pattern ==
  Ch("(") \o Ws(Ch("(")) \o Ws(ReBasis) \o Ws(Plus(ReNum)) \o Ws(Ch("-")) \o Ws(Lit(ZheKou))
  \o Ws(Plus(ReNum)) \o Ws(Ch(")")) \o Ws(Ch("*")) \o Ws(ReKP) \o Ws(Ch(")")) \o ReShapeTail
\* GDS\s*Type[:：]\s*([^\s\r\n]+)
ReGdsType ==
  Lit(<<"G", "D", "S">>) \o Ws(Lit(<<"T", "y", "p", "e">>)) \o One({":", FWColon})
  \o Ws(Open(1)) \o Plus(ReNonSpace) \o Close(1)
\* 大人公式[:：]\s*(.*)
ReAdultFormula ==
  Lit(DaRenGongShi) \o One({":", FWColon}) \o Ws(Open(1)) \o Star(ReDot) \o Close(1)
\* \(\s*([一-龥A-Za-z]+)\s*([\d,，]+)   and the same after \(\s*\(
ReTypePrice ==
  Ch("(") \o Ws(Open(1)) \o Plus(ReHanAlpha) \o Close(1) \o Ws(Open(2)) \o Plus(ReNum) \o Close(2)
ReTypePriceNested == Ch("(") \o Ws(ReTypePrice)
\* \[\s*KP\s*(\d+)\s*\]
ReKPCode ==
  Ch("[") \o Ws(LitI(<<"K", "P">>)) \o Ws(Open(1)) \o Plus(ReDigit) \o Close(1) \o Ws(Ch("]"))
\* 折扣\s*([\d,，]+)
ReDiscount == Lit(ZheKou) \o Ws(Open(1)) \o Plus(ReNum) \o Close(1)
\* \)\s*\*\s*([0-9]+(?:\.[0-9]+)?)
RePriceFactor == Ch(")") \o Ws(Ch("*")) \o Ws(Open(1)) \o ReDecimal \o Close(1)
\* TAX\s*([\d,，]+)\s*\*\s*([0-9]+(?:\.[0-9]+)?)
ReTax ==
  LitI(<<"T", "A", "X">>) \o Ws(Open(1)) \o Plus(ReNum) \o Close(1) \o Ws(Ch("*"))
  \o Ws(Open(2)) \o ReDecimal \o Close(2)
\* The fixed amount without its sign: 固定金額\s*([\d,，]+)
ReFixed_Unsigned == Lit(GuDingJinE) \o Ws(Open(1)) \o Plus(ReNum) \o Close(1)
\* 固定金額\s*([-]?[\d,，]+)
ReFixed == Lit(GuDingJinE) \o Ws(Open(1)) \o Maybe({"-"}) \o Plus(ReNum) \o Close(1)
\* =\s*([\d,，]+)\s*$
ReTotal == Ch("=") \o Ws(Open(1)) \o Plus(ReNum) \o Close(1) \o Ws(Eos)
\* 稅金\s*([\d,，]+)
ReTaxLabel == Lit(ShuiJin) \o Ws(Open(1)) \o Plus(ReNum) \o Close(1)
\* 總售價[:：]\s*([\d,，]+)
ReTotalLabel ==
  Lit(ZongShouJia) \o One({":", FWColon}) \o Ws(Open(1)) \o Plus(ReNum) \o Close(1)

\* The record of extract_and_clean_price_data.  Its keys, in the source's
\* order: GDS Type, 稅金 (Tax), 總售價 (Total), 票型 (FareBasis), 基礎票價
\* (BaseFare), 折讓百分比 (DiscountPct), 折扣 (Discount), 票價加價成數
\* (PriceFactor), 稅金加價成數 (TaxFactor), 固定金額 (Fixed), 公式類型
\* (FormulaType).
PriceRecordDefault_Type0 ==
  [GDSType |-> <<>>, Tax |-> 0, Total |-> 0, FareBasis |-> <<>>, BaseFare |-> 0,
   DiscountPct |-> 0, Discount |-> 0, PriceFactor |-> DecZero, TaxFactor |-> DecZero,
   Fixed |-> 0, FormulaType |-> 0]
PriceRecordDefault ==
  [GDSType |-> <<>>, Tax |-> 0, Total |-> 0, FareBasis |-> <<>>, BaseFare |-> 0,
   DiscountPct |-> 0, Discount |-> 0, PriceFactor |-> DecZero, TaxFactor |-> DecZero,
   Fixed |-> 0, FormulaType |-> -1]
PriceKeys == DOMAIN PriceRecordDefault

\* GDS Type
ParseGdsType(rec, modal_text) ==
  LET m == ReSearch(modal_text, ReGdsType)
  IN IF m.ok THEN [rec EXCEPT !.GDSType = Strip(Group(modal_text, m, 1))] ELSE rec
\* formula_line
FormulaLine(modal_text) ==
  LET fm == ReSearch(modal_text, ReAdultFormula)
  IN IF fm.ok THEN Strip(Group(modal_text, fm, 1)) ELSE <<>>
\* A chain whose else branch takes the first shape as the default.
ClassifyShape_DefaultShape1(formula_line) ==
  IF ReMatch(formula_line, type1_pattern).ok THEN 1
  ELSE IF ReMatch(formula_line, type2_pattern).ok THEN 2
  ELSE 1
\* The shape the if / elif / else chain assigns: 1, 2 or -1.
ClassifyShape(formula_line) ==
  IF ReMatch(formula_line, type1_pattern).ok THEN 1
  ELSE IF ReMatch(formula_line, type2_pattern).ok THEN 2
  ELSE -1
\* Whether the else branch (the breakpoint) is taken.
UnknownShape(formula_line) == ClassifyShape(formula_line) = -1

SetTypePrice(rec, f) ==
  LET m1 == ReSearch(f, ReTypePrice)
      m == IF m1.ok THEN m1 ELSE ReSearch(f, ReTypePriceNested)
  IN IF m.ok
     THEN [rec EXCEPT !.FareBasis = Strip(Group(f, m, 1)), !.BaseFare = parse_int(Group(f, m, 2))]
     ELSE rec
SetKP(rec, f) ==
  LET m == ReSearch(f, ReKPCode)
  IN IF m.ok THEN [rec EXCEPT !.DiscountPct = IntVal(Group(f, m, 1))] ELSE rec
SetDiscount(rec, f) ==
  LET m == ReSearch(f, ReDiscount)
  IN IF m.ok THEN [rec EXCEPT !.Discount = parse_int(Group(f, m, 1))] ELSE rec
SetPriceFactor(rec, f) ==
  LET m == ReSearch(f, RePriceFactor)
  IN IF m.ok THEN [rec EXCEPT !.PriceFactor = parse_float(Group(f, m, 1))] ELSE rec
SetTax(rec, f) ==
  LET m == ReSearch(f, ReTax)
  IN IF m.ok
     THEN [rec EXCEPT !.Tax = parse_int(Group(f, m, 1)), !.TaxFactor = parse_float(Group(f, m, 2))]
     ELSE rec
SetFixed(rec, f) ==
  LET m == ReSearch(f, ReFixed)
  IN IF m.ok THEN [rec EXCEPT !.Fixed = parse_int(Group(f, m, 1))] ELSE rec
SetTotal(rec, f) ==
  LET m == ReSearch(f, ReTotal)
  IN IF m.ok THEN [rec EXCEPT !.Total = parse_int(Group(f, m, 1))] ELSE rec
\* The field extraction that follows the classification.
ExtractFormulaFields(rec, f) ==
  SetTotal(SetFixed(SetTax(SetPriceFactor(SetDiscount(SetKP(SetTypePrice(rec, f), f), f), f), f), f), f)

\* A tax fallback that runs whatever the formula gave.
TaxFallbackRuns_Always(rec) == TRUE
\* The fallback searches; each runs only on a field that is still 0.
TaxFallbackRuns(rec) == rec.Tax = 0
TotalFallbackRuns(rec) == rec.Total = 0
FallbackTax(rec, modal_text) ==
  IF TaxFallbackRuns(rec)
  THEN LET m == ReSearch(modal_text, ReTaxLabel)
       IN IF m.ok THEN [rec EXCEPT !.Tax = parse_int(Group(modal_text, m, 1))] ELSE rec
  ELSE rec
FallbackTotal(rec, modal_text) ==
  IF TotalFallbackRuns(rec)
  THEN LET m == ReSearch(modal_text, ReTotalLabel)
       IN IF m.ok THEN [rec EXCEPT !.Total = parse_int(Group(modal_text, m, 1))] ELSE rec
  ELSE rec

\* ------------------------------------------------------------------------
\* Fare dialogs: the texts the decoder is run on
\* ------------------------------------------------------------------------
DigitChar(d) == <<"0", "1", "2", "3", "4", "5", "6", "7", "8", "9">>[d + 1]
RECURSIVE RenderNat(_)
RenderNat(v) == IF v < 10 THEN <<DigitChar(v)>> ELSE RenderNat(v \div 10) \o <<DigitChar(v % 10)>>
\* Thousands separators (sep = <<>>: none).
RECURSIVE Grouped(_, _)
Grouped(ds, sep) ==
  IF Len(ds) <= 3 \/ sep = <<>> THEN ds
  ELSE Grouped(SubSeq(ds, 1, Len(ds) - 3), sep) \o sep \o SubSeq(ds, Len(ds) - 2, Len(ds))
RenderInt(v, sep) ==
  IF v < 0 THEN <<"-">> \o Grouped(RenderNat(0 - v), sep) ELSE Grouped(RenderNat(v), sep)
\* A decimal multiplier: integer part and fraction digits.
RenderFactor(f) ==
  RenderNat(f.int) \o (IF f.frac = <<>> THEN <<>> ELSE <<".">> \o [i \in 1..Len(f.frac) |-> DigitChar(f.frac[i])])
RECURSIVE Pow10(_)
Pow10(n) == IF n = 0 THEN 1 ELSE 10 * Pow10(n - 1)
RECURSIVE FracNat(_)
FracNat(fr) == IF fr = <<>> THEN 0 ELSE 10 * FracNat(SubSeq(fr, 1, Len(fr) - 1)) + fr[Len(fr)]
FactorValue(f) == DecNorm(FALSE, f.int * Pow10(Len(f.frac)) + FracNat(f.frac), Len(f.frac))

\* Operand profiles: 1 and 2 are the documented examples; 3 has a zero tax and a
\* zero total; 4 and 5 have other digit counts.
NumProfiles == 4
Profiles ==
  << [b |-> 4468, n |-> 3, d |-> 0, f1 |-> [int |-> 1, frac |-> <<0, 2, 1>>], t |-> 3840,
      f2 |-> [int |-> 1, frac |-> <<0, 2, 1>>], x |-> 0, T |-> 8346],
     [b |-> 11800, n |-> 5, d |-> 500, f1 |-> [int |-> 1, frac |-> <<0>>], t |-> 1200,
      f2 |-> [int |-> 1, frac |-> <<0>>], x |-> -100, T |-> 12400],
     [b |-> 1234567, n |-> 10, d |-> 1000, f1 |-> [int |-> 2, frac |-> <<>>], t |-> 0,
      f2 |-> [int |-> 1, frac |-> <<5>>], x |-> -1500, T |-> 0],
     [b |-> 999, n |-> 0, d |-> 12, f1 |-> [int |-> 0, frac |-> <<9, 5>>], t |-> 1000000,
      f2 |-> [int |-> 10, frac |-> <<2, 5, 0>>], x |-> 25, T |-> 2000999],
     [b |-> 50, n |-> 7, d |-> 50, f1 |-> [int |-> 12, frac |-> <<5>>], t |-> 7,
      f2 |-> [int |-> 3, frac |-> <<>>], x |-> -1, T |-> 0] >>
\* Writing styles: the separator of thousands, whether tokens are separated by
\* spaces, and the case of TAX and KP.
Styles ==
  << [sep |-> <<",">>, tight |-> FALSE, lower |-> FALSE],
     [sep |-> <<FWComma>>, tight |-> TRUE, lower |-> FALSE],
     [sep |-> <<>>, tight |-> FALSE, lower |-> TRUE],
     [sep |-> <<",">>, tight |-> TRUE, lower |-> TRUE] >>
\* Departures from the two shapes ("none": the shape as documented).
Mutations == {"none", "noKP", "noFixed", "trailing", "otherBasis", "noParens"}

Tok(tag, text) == [tag |-> tag, text |-> text]
TailTokens(p, st) ==
  << Tok("op", <<"*">>), Tok("f1", RenderFactor(p.f1)), Tok("op", <<"+">>),
     Tok("tax", IF st.lower THEN <<"t", "a", "x">> ELSE <<"T", "A", "X">>),
     Tok("t", RenderInt(p.t, st.sep)), Tok("op", <<"*">>), Tok("f2", RenderFactor(p.f2)),
     Tok("fixedplus", <<"+">>), Tok("fixed", GuDingJinE), Tok("x", RenderInt(p.x, st.sep)),
     Tok("op", <<"=">>), Tok("T", RenderInt(p.T, st.sep)) >>
KPToken(p, st) ==
  Tok("kp", <<"[">> \o (IF st.lower THEN <<"k", "p">> ELSE <<"K", "P">>) \o RenderNat(p.n) \o <<"]">>)
ShapeTokens(shape, basis, p, st) ==
  IF shape = 1
  THEN << Tok("paren", <<"(">>), Tok("basis", basis), Tok("b", RenderInt(p.b, st.sep)),
          Tok("kpstar", <<"*">>), KPToken(p, st), Tok("op", <<"-">>), Tok("disc", ZheKou),
          Tok("d", RenderInt(p.d, st.sep)), Tok("paren", <<")">>) >> \o TailTokens(p, st)
  ELSE << Tok("paren", <<"(">>), Tok("paren", <<"(">>), Tok("basis", basis),
          Tok("b", RenderInt(p.b, st.sep)), Tok("op", <<"-">>), Tok("disc", ZheKou),
          Tok("d", RenderInt(p.d, st.sep)), Tok("paren", <<")">>), Tok("kpstar", <<"*">>),
          KPToken(p, st), Tok("paren", <<")">>) >> \o TailTokens(p, st)
RECURSIVE DropTags(_, _)
DropTags(toks, tags) ==
  IF toks = <<>> THEN <<>>
  ELSE (IF Head(toks).tag \in tags THEN <<>> ELSE <<Head(toks)>>) \o DropTags(Tail(toks), tags)
Mutate(toks, mutation) ==
  CASE mutation = "none" -> toks
    [] mutation = "noKP" -> DropTags(toks, {"kpstar", "kp"})
    [] mutation = "noFixed" -> DropTags(toks, {"fixedplus", "fixed", "x"})
    [] mutation = "trailing" -> toks \o <<Tok("extra", <<"T", "W", "D">>)>>
    [] mutation = "otherBasis" ->
         [i \in 1..Len(toks) |-> IF toks[i].tag = "basis" THEN Tok("basis", <<"N", "E", "T">>) ELSE toks[i]]
    [] mutation = "noParens" -> DropTags(toks, {"paren"})
RECURSIVE JoinTokens(_, _)
JoinTokens(toks, tight) ==
  IF toks = <<>> THEN <<>>
  ELSE IF Len(toks) = 1 THEN toks[1].text
  ELSE toks[1].text \o (IF tight THEN <<>> ELSE <<Space>>) \o JoinTokens(Tail(toks), tight)
RenderFormula(src) ==
  JoinTokens(Mutate(ShapeTokens(src.shape, src.basis, Profiles[src.profile], Styles[src.style]),
                    src.mutation), Styles[src.style].tight)

\* The numbers beside the standalone labels of the dialog.
DialogLabels == [tax |-> 2534, total |-> 10980]
LabelSets == {{}, {"tax"}, {"total"}, {"tax", "total"}}
\* The dialog text: an optional GDS Type line, an optional 大人公式 line, an
\* optional "NEGO 8446 稅金 2,534" line and an optional "總售價： 10,980" line.
RenderDialog(src) ==
  (IF src.gds THEN <<"G", "D", "S", " ", "T", "y", "p", "e", ":", " ", "1", "A", Newline>> ELSE <<>>)
  \o (IF src.formula
      THEN DaRenGongShi \o (IF Styles[src.style].tight THEN <<FWColon>> ELSE <<":", Space>>)
           \o RenderFormula(src) \o <<Newline>>
      ELSE <<>>)
  \o (IF "tax" \in src.labels
      THEN <<"N", "E", "G", "O", " ", "8", "4", "4", "6", " ">> \o ShuiJin \o <<Space>>
           \o RenderInt(DialogLabels.tax, <<",">>) \o <<Newline>>
      ELSE <<>>)
  \o (IF "total" \in src.labels
      THEN ZongShouJia \o <<FWColon, Space>> \o RenderInt(DialogLabels.total, <<",">>) \o <<Newline>>
      ELSE <<>>)
\* What a dialog is written from; a dialog without formula line has one source.
DialogSources ==
  [gds : BOOLEAN, formula : {TRUE}, labels : LabelSets, shape : {1, 2},
   basis : {PiaoMian, JingJia}, profile : 1..NumProfiles, style : 1..Len(Styles),
   mutation : Mutations]
  \cup [gds : BOOLEAN, formula : {FALSE}, labels : LabelSets, shape : {1},
        basis : {PiaoMian}, profile : {1}, style : {1}, mutation : {"none"}]

\* ------------------------------------------------------------------------
\* FlightRecord
\* ------------------------------------------------------------------------
Outbound == "outbound"   \* 去程
Inbound == "inbound"     \* 回程
Directions == {Outbound, Inbound}
MaxSegments == 3
\* 航班編號, 艙等與艙等編碼, 起飛機場, 降落機場, 起飛時間, 降落時間, 飛機公司及型號, 飛行時間
SegmentFields == {"flight_no", "cabin_and_code", "dep_airport", "arr_airport",
                  "dep_time", "arr_time", "equipment", "duration"}
\* The key "{direction}{field}{i}" is the triple <<direction, field, i>>.
FlightKeys == Directions \X SegmentFields \X (1..MaxSegments)
\* The record with outbound slots only.
initialize_flight_record_OutboundOnly ==
  [key \in {Outbound} \X SegmentFields \X (1..MaxSegments) |-> <<>>]
\* FlightDataExtractor._initialize_flight_record
initialize_flight_record == [key \in FlightKeys |-> <<>>]

\* d[k] = v of a dict: the key is added when it is new.
DictUpdate(d, u) == [k \in (DOMAIN d) \cup (DOMAIN u) |-> IF k \in DOMAIN u THEN u[k] ELSE d[k]]
\* d.get(k)
DictGet(d, k) == IF k \in DOMAIN d THEN d[k] ELSE PyNone
EmptyDict == <<>>

\* w in s, and contains(., w) of XPath
Contains(s, w) == \E p \in 1..(Len(s) + 1) : WordAt(s, p, [i \in 1..Len(w) |-> {w[i]}])
\* s.split(sep)[0]
SplitHead(s, sep) ==
  LET at == {i \in 1..Len(s) : s[i] = sep}
  IN IF at = {} THEN s ELSE SubSeq(s, 1, SetMin(at) - 1)

\* ------------------------------------------------------------------------
\* The flight details of a card: journey blocks (table.flightDetails_table)
\* and their rows
\* ------------------------------------------------------------------------
HuiCheng == <<"u56DE", "u7A0B">>  \* 回程
QuCheng == <<"u53BB", "u7A0B">>   \* 去程
ReturnLine == <<"r", "e", "t", "u", "r", "n", "_", "l", "i", "n", "e">>
DetailTitle == <<"d", "e", "t", "a", "i", "l", "_", "t", "i", "t", "l", "e">>
DesktopDetailTitle == <<"d", "e", "s", "k", "t", "o", "p", "_", "d", "e", "t", "a", "i", "l", "_", "t", "i", "t", "l", "e">>

\* The class attributes and the p elements of the journey blocks of the page.
BlockClasses ==
  <<<<"f", "l", "i", "g", "h", "t", "D", "e", "t", "a", "i", "l", "s", "_", "t", "a", "b", "l", "e">>, <<"f", "l", "i", "g", "h", "t", "D", "e", "t", "a", "i", "l", "s", "_", "t", "a", "b", "l", "e", " ", "r", "e", "t", "u", "r", "n", "_", "l", "i", "n", "e">>, PyNone>>
BlockTitles ==
  << <<>>,
     <<[class |-> <<"d", "e", "t", "a", "i", "l", "_", "t", "i", "t", "l", "e">>, text |-> <<"u53BB", "u7A0B", " ", "1", "0", "/", "1", "5">>]>>,
     <<[class |-> <<"d", "e", "s", "k", "t", "o", "p", "_", "d", "e", "t", "a", "i", "l", "_", "t", "i", "t", "l", "e", " ", "n", "g", "-", "b", "i", "n", "d", "i", "n", "g">>, text |-> <<"u56DE", "u7A0B", " ", "1", "0", "/", "2", "0">>]>>,
     <<[class |-> <<"d", "e", "t", "a", "i", "l", "_", "t", "i", "t", "l", "e">>, text |-> <<"u53BB", "u7A0B">>],
       [class |-> <<"s", "t", "a", "y", "_", "n", "o", "t", "e">>, text |-> <<"u56DE", "u7A0B", " ", "T", "P", "E">>]>> >>
\* A journey block; cues says how the block was written (not read by the program).
OuterTables ==
  {[class |-> BlockClasses[c], titles |-> BlockTitles[t],
    cues |-> [title |-> t = 3, class |-> c = 2]] :
     c \in 1..Len(BlockClasses), t \in 1..Len(BlockTitles)}
NoTable == [class |-> PyNone, titles |-> <<>>, cues |-> [title |-> FALSE, class |-> FALSE]]

\* The direction from the position alone.
determine_flight_direction_PositionOnly(outer_table, table_index) ==
  IF table_index = 1 THEN Inbound ELSE Outbound
\* FlightDataExtractor._determine_flight_direction
determine_flight_direction(outer_table, table_index) ==
  LET outer_class == IF outer_table.class = PyNone THEN <<>> ELSE outer_table.class
      has_return_title ==
        \E i \in 1..Len(outer_table.titles) :
          /\ \/ Contains(outer_table.titles[i].class, DetailTitle)
             \/ Contains(outer_table.titles[i].class, DesktopDetailTitle)
          /\ Contains(outer_table.titles[i].text, HuiCheng)
  IN IF has_return_title \/ Contains(outer_class, ReturnLine) THEN Inbound
     ELSE IF table_index = 1 THEN Inbound ELSE Outbound

\* FlightDataExtractor._find_segment_rows: the rows of the precise XPath, or
\* when there is none the rows of the looser one.
find_segment_rows(strict_rows, loose_rows) ==
  IF strict_rows # 0 THEN [n |-> strict_rows, via |-> "strict"]
  ELSE [n |-> loose_rows, via |-> "loose"]

\* The cells of a segment row.
SegmentCells == {"cell_2", "cell_3", "cell_5", "cell_6"}
\* A row of a journey block: the td cells it has and the texts of the p
\* elements of each; shows says how the row was written (not read by the
\* program): for the departure and arrival date-time "ok", "absent" or
\* "unparseable", for the duration "ok", "absent" or "unparseable", for the
\* airports "ok" or "unmatched".
Shows(dep_time, arr_time, duration, dep_airport, arr_airport) ==
  [dep_time |-> dep_time, arr_time |-> arr_time, duration |-> duration,
   dep_airport |-> dep_airport, arr_airport |-> arr_airport]
SegmentRows ==
  << [cells |-> SegmentCells,
      cell_2 |-> <<<<"B", "R">>, <<"B", "R", "1", "9", "8", " ", "u7D93", "u6FDF", "u8259", " ", "K">>>>,
      cell_3 |-> <<<<"T", "P", "E", " ", "u53F0", "u5317">>, <<"1", "0", "/", "1", "5", "(", "u4E09", ")", " ", "0", "8", ":", "5", "0">>>>,
      cell_5 |-> <<<<"N", "R", "T", " ", "u6771", "u4EAC", " ", "u6210", "u7530">>, <<"1", "0", "/", "1", "5", "(", "u4E09", ")", " ", "1", "3", ":", "1", "5">>>>,
      cell_6 |-> <<<<"B", "7", "8", "7">>, <<"3", "u5C0F", "u6642", "2", "5", "u5206", "u9418">>>>,
      shows |-> Shows("ok", "ok", "ok", "ok", "ok")],
     [cells |-> SegmentCells,
      cell_2 |-> <<<<"U", "A", "8", "5", "2", " ", "u7D93", "u6FDF", "u8259", " ", "W">>>>,
      cell_3 |-> <<<<"N", "R", "T">>, <<"1", "2", "/", "3", "1", " ", "2", "3", ":", "0", "5">>>>,
      cell_5 |-> <<<<" ", "T", "P", "E">>, <<>>, <<"0", "1", "/", "0", "1", " ", "0", "2", ":", "4", "0">>>>,
      cell_6 |-> <<>>,
      shows |-> Shows("ok", "ok", "absent", "ok", "ok")],
     [cells |-> SegmentCells,
      cell_2 |-> <<<<"C", "I", " ", "1", "0", "0", " ", "W">>>>,
      cell_3 |-> <<<<"T", "P", "E", "u53F0", "u5317">>>>,
      cell_5 |-> <<<<"N", "R", "T">>, <<"1", "0", "-", "1", "5", " ", "1", "3", ":", "1", "5">>>>,
      cell_6 |-> <<<<"u7D04", "u4E09", "u5C0F", "u6642">>>>,
      shows |-> Shows("absent", "unparseable", "unparseable", "unmatched", "ok")],
     [cells |-> SegmentCells \ {"cell_6"},
      cell_2 |-> <<<<"B", "R", "1", "9", "8", " ", "u7D93", "u6FDF", "u8259", " ", "K">>>>,
      cell_3 |-> <<<<"T", "P", "E">>, <<"1", "0", "/", "1", "5", " ", "0", "8", ":", "5", "0">>>>,
      cell_5 |-> <<<<"N", "R", "T">>, <<"1", "0", "/", "1", "5", " ", "1", "3", ":", "1", "5">>>>,
      cell_6 |-> <<>>,
      shows |-> Shows("ok", "ok", "absent", "ok", "ok")],
     [cells |-> SegmentCells,
      cell_2 |-> <<<<"U", "A", "8", "5", "2", " ", "u7D93", "u6FDF", "u8259", " ", "W">>>>,
      cell_3 |-> <<<<"N", "R", "T">>, <<"1", "2", "/", "3", "1", " ", "2", "3", ":", "0", "5">>>>,
      cell_5 |-> <<<<"T", "P", "E">>, <<"1", "0", "/", "1", "5", " ", "1", "3", ":", "1", "5", " ", "+", "1">>>>,
      cell_6 |-> <<<<"2", "5", "u5206">>>>,
      shows |-> Shows("ok", "unparseable", "ok", "ok", "ok")],
     [cells |-> {"cell_3", "cell_5"},
      cell_2 |-> <<>>,
      cell_3 |-> <<<<"T", "P", "E">>>>,
      cell_5 |-> <<<<"N", "R", "T">>>>,
      cell_6 |-> <<>>,
      shows |-> Shows("absent", "absent", "absent", "ok", "ok")] >>
\* The rows the page can show at a position: the first three rows of the
\* catalogue (no error is raised for them) follow each other along the blocks and rows, the others can stand anywhere;
\* a row of the precise XPath has its cell_2.
RowsAt(via, table_index, row_index) ==
  {i \in 1..Len(SegmentRows) :
     /\ i <= 3 => i = 1 + ((table_index + row_index) % 3)
     /\ via = "strict" => "cell_2" \in SegmentRows[i].cells}

Pad2(v) == IF v < 10 THEN <<"0">> \o RenderNat(v) ELSE RenderNat(v)
Pad4(v) == IF v < 1000 THEN <<"0">> \o (IF v < 100 THEN <<"0">> ELSE <<>>) \o Pad2(v) ELSE RenderNat(v)
\* DateTimeParser.format_datetime_to_string: "%Y-%m-%d %H:%M", "" for None
format_datetime_to_string(dt) ==
  IF dt = PyNone THEN <<>>
  ELSE Pad4(dt[1]) \o <<"-">> \o Pad2(dt[2]) \o <<"-">> \o Pad2(dt[3]) \o <<Space>>
       \o Pad2(dt[4]) \o <<":">> \o Pad2(dt[5])
\* DateTimeParser.format_timedelta_to_hhmm, of a timedelta <<days, seconds>>
format_timedelta_to_hhmm(td) ==
  IF td = PyNone THEN <<>>
  ELSE LET total_minutes == (td[1] * 86400 + td[2]) \div 60
       IN IF total_minutes <= 0 THEN <<>>
          ELSE Pad2(total_minutes \div 60) \o <<":">> \o Pad2(total_minutes % 60)

Raised(error) == [ok |-> FALSE, error |-> error]
\* ------------------------------------------------------------------------
\* DateTimeParser
\* ------------------------------------------------------------------------
\* re.sub(pattern, "", s) for a pattern with no empty match
RECURSIVE ReSubEmpty(_, _)
ReSubFound(s, items, m) ==
  IF ~m.ok THEN s
  ELSE SubSeq(s, 1, m.start - 1) \o ReSubEmpty(SubSeq(s, m.end, Len(s)), items)
ReSubEmpty(s, items) == ReSubFound(s, items, ReSearch(s, items))

ReParenthesized == Ch("(") \o Star(AllChars \ {")"}) \o Ch(")")   \* \([^)]*\)
\* The pattern strptime makes of "%Y/%m/%d %H:%M":
\* (\d\d\d\d)/(1[0-2]|0[1-9]|[1-9])/(3[0-1]|[1-2]\d|0[1-9]|[1-9]| [1-9])\s+(2[0-3]|[0-1]\d|\d):([0-5]\d|\d)
ReStrptime ==
  Open(1) \o Cls(ReDigit, 4, 4) \o Close(1) \o Ch("/")
  \o Open(2) \o Alt(Ch("1") \o One({"0", "1", "2"}),
                   Alt(Ch("0") \o One(Digits \ {"0"}), One(Digits \ {"0"}))) \o Close(2)
  \o Ch("/")
  \o Open(3) \o Alt(Ch("3") \o One({"0", "1"}),
                   Alt(One({"1", "2"}) \o One(Digits),
                       Alt(Ch("0") \o One(Digits \ {"0"}),
                           Alt(One(Digits \ {"0"}), Ch(Space) \o One(Digits \ {"0"}))))) \o Close(3)
  \o Plus(ReSpace)
  \o Open(4) \o Alt(Ch("2") \o One({"0", "1", "2", "3"}),
                   Alt(One({"0", "1"}) \o One(Digits), One(Digits))) \o Close(4)
  \o Ch(":")
  \o Open(5) \o Alt(One({"0", "1", "2", "3", "4", "5"}) \o One(Digits), One(Digits)) \o Close(5)

IsLeap(year) == (year % 4 = 0 /\ year % 100 # 0) \/ year % 400 = 0
DaysInMonth(year, month) ==
  IF month = 2 THEN (IF IsLeap(year) THEN 29 ELSE 28)
  ELSE IF month \in {4, 6, 9, 11} THEN 30 ELSE 31

\* datetime.strptime(f"{year}/" + cleaned, "%Y/%m/%d %H:%M"): the whole text has
\* to be matched, and the day has to exist in the month.
StrptimeDate(year, month, day, hour, minute) ==
  IF year < 1 \/ day > DaysInMonth(year, month) THEN Raised("ValueError")
  ELSE [ok |-> TRUE, dt |-> <<year, month, day, hour, minute>>]
StrptimeFound(data_string, found) ==
  IF ~found.ok THEN Raised("ValueError")
  ELSE IF found.end # Len(data_string) + 1 THEN Raised("ValueError")
  ELSE StrptimeDate(DigitsToNat(Group(data_string, found, 1)),
                    DigitsToNat(Group(data_string, found, 2)),
                    DigitsToNat(Strip(Group(data_string, found, 3))),
                    DigitsToNat(Group(data_string, found, 4)),
                    DigitsToNat(Group(data_string, found, 5)))
strptime(data_string) == StrptimeFound(data_string, ReMatch(data_string, ReStrptime))

\* parse_date_time with the parenthesized weekday left in the text.
parse_date_time_KeepParenthesized(text, year) ==
  IF text = PyNone THEN Raised("ValueError")
  ELSE strptime(RenderNat(year) \o <<"/">> \o Strip(text))
\* The parse that takes the year 2025 of the day of the run, not the given one.
parse_date_time_YearOfRun(text, year) ==
  IF text = PyNone THEN Raised("ValueError")
  ELSE strptime(<<"2", "0", "2", "5", "/">> \o Strip(ReSubEmpty(text, ReParenthesized)))
\* DateTimeParser.parse_date_time
parse_date_time(text, year) ==
  IF text = PyNone THEN Raised("ValueError")
  ELSE strptime(RenderNat(year) \o <<"/">> \o Strip(ReSubEmpty(text, ReParenthesized)))

XiaoShi == <<"u5C0F", "u6642">>   \* 小時
Fen == <<"u5206">>                \* 分
ReHours == Open(1) \o Plus(ReDigit) \o Close(1) \o Ws(Lit(XiaoShi))   \* (\d+)\s*小時
ReMinutes == Open(1) \o Plus(ReDigit) \o Close(1) \o Ws(Lit(Fen))     \* (\d+)\s*分
\* timedelta(hours=hours, minutes=minutes), kept as <<days, seconds>>
timedelta(hours, minutes) ==
  <<(60 * hours + minutes) \div 1440, ((60 * hours + minutes) % 1440) * 60>>
\* parse_duration_to_timedelta with the minutes left out.
\* int(m.group(1)) if m else 0
CountOf(text, m) == IF m.ok THEN DigitsToNat(Group(text, m, 1)) ELSE 0
parse_duration_to_timedelta_HoursOnly(text) ==
  IF text = PyNone \/ text = <<>> THEN timedelta(0, 0)
  ELSE timedelta(CountOf(text, ReSearch(text, ReHours)), 0)
\* DateTimeParser.parse_duration_to_timedelta
parse_duration_to_timedelta(text) ==
  IF text = PyNone \/ text = <<>> THEN timedelta(0, 0)
  ELSE timedelta(CountOf(text, ReSearch(text, ReHours)), CountOf(text, ReSearch(text, ReMinutes)))

\* ------------------------------------------------------------------------
\* FlightDataParser
\* ------------------------------------------------------------------------
ReCodeChar == UpperLetters \cup Digits   \* [A-Z0-9]
ReIata == Ws(Open(1)) \o Cls(UpperLetters, 3, 3) \o Close(1) \o WordB   \* \s*([A-Z]{3})\b
\* FlightDataParser.extract_iata
IataOf(text, m) == IF m.ok THEN Group(text, m, 1) ELSE <<>>
IataAtStart(text) == IataOf(text, ReMatch(text, ReIata))
extract_iata(text) ==
  IF text = PyNone \/ text = <<>> THEN <<>>
  ELSE IataAtStart(Strip(text))

\* \s*([A-Z0-9]{2,3})\s?(\d+)\s+(\S*?)\s*([A-Z])\s*$
ReFlightCabin ==
  Ws(Open(1)) \o Cls(ReCodeChar, 2, 3) \o Close(1) \o Maybe(ReSpace)
  \o Open(2) \o Plus(ReDigit) \o Close(2) \o Plus(ReSpace)
  \o Open(3) \o ClsLazy(ReNonSpace, 0, Unbounded) \o Close(3)
  \o Ws(Open(4)) \o One(UpperLetters) \o Close(4) \o Ws(Eos)
\* ([A-Z0-9]{2,3})\s?(\d+)
ReFlightNo ==
  Open(1) \o Cls(ReCodeChar, 2, 3) \o Close(1) \o Maybe(ReSpace)
  \o Open(2) \o Plus(ReDigit) \o Close(2)
\* ([一-龥A-Za-z]+)\s*([A-Z])\s*$
ReCabinTail ==
  Open(1) \o Plus(ReHanAlpha) \o Close(1) \o Star(ReSpace)
  \o Open(2) \o One(UpperLetters) \o Close(2) \o Ws(Eos)

\* str.split(): the runs of characters that are not whitespace
RECURSIVE Split(_)
SplitAt(t, n) == <<SubSeq(t, 1, n)>> \o Split(SubSeq(t, n + 1, Len(t)))
SplitStripped(t) ==
  IF t = <<>> THEN <<>> ELSE SplitAt(t, RunLen(t, 1, AllChars \ Whitespace, Unbounded))
Split(s) == SplitStripped(LStrip(s))

\* parse_flight_and_cabin with the strict pattern only.
StrictOnlyTier(text, m) ==
  IF m.ok THEN <<Group(text, m, 1) \o Group(text, m, 2), Group(text, m, 3) \o Group(text, m, 4)>>
  ELSE <<Strip(text), <<>>>>
parse_flight_and_cabin_StrictOnly(text) ==
  IF text = PyNone \/ text = <<>> THEN <<<<>>, <<>>>>
  ELSE StrictOnlyTier(text, ReMatch(text, ReFlightCabin))
\* Lines 219-224: parts = text.split()
WordsTier(text, parts) ==
  IF Len(parts) >= 3 THEN <<parts[1], parts[2] \o parts[3]>>
  ELSE <<Strip(text), <<>>>>
\* Lines 216-217: m3, the cabin word and letter at the end
CabinTail(text, m3) == IF m3.ok THEN Group(text, m3, 1) \o Group(text, m3, 2) ELSE <<>>
\* Lines 213-218: m2, CODE NUMBER anywhere
LooseTier(text, m2) ==
  IF m2.ok
  THEN <<Group(text, m2, 1) \o Group(text, m2, 2), CabinTail(text, ReSearch(text, ReCabinTail))>>
  ELSE WordsTier(text, Split(text))
\* Lines 206-210: m, the strict pattern
StrictTier(text, m) ==
  IF m.ok THEN <<Group(text, m, 1) \o Group(text, m, 2), Group(text, m, 3) \o Group(text, m, 4)>>
  ELSE LooseTier(text, ReSearch(text, ReFlightNo))
\* FlightDataParser.parse_flight_and_cabin
parse_flight_and_cabin(text) ==
  IF text = PyNone \/ text = <<>> THEN <<<<>>, <<>>>>
  ELSE StrictTier(text, ReMatch(text, ReFlightCabin))

\* [A-Z0-9]{2,3}\s?\d+
ReFlightCandidate == Cls(ReCodeChar, 2, 3) \o Maybe(ReSpace) \o Plus(ReDigit)
\* \d{1,2}/\d{1,2}.*\d{1,2}:\d{2}
ReTimeLine ==
  Cls(ReDigit, 1, 2) \o Ch("/") \o Cls(ReDigit, 1, 2) \o Star(ReDot)
  \o Cls(ReDigit, 1, 2) \o Ch(":") \o Cls(ReDigit, 2, 2)
\* \d+\s*小時|\d+\s*分
ReDurationLine == Alt(Plus(ReDigit) \o Ws(Lit(XiaoShi)), Plus(ReDigit) \o Ws(Lit(Fen)))

\* [p.text.strip() for p in ...]
StripAll(ps) == [i \in 1..Len(ps) |-> Strip(ps[i])]
\* [... if p.text.strip()]
NonEmpty(ps) == SelectSeq(ps, LAMBDA t : t # <<>>)
\* The first text of ps that the pattern is found in, or none.
FirstOf(ps, found, none) == IF found = {} THEN none ELSE ps[SetMin(found)]
FirstMatching(ps, items, none) ==
  FirstOf(ps, {i \in 1..Len(ps) : ReSearch(ps[i], items).ok}, none)

\* FlightDataExtractor._extract_flight_and_cabin_info: the texts of cell_2 are
\* read up to three times; the page of the model does not change in between.
\* candidates[-1] if candidates else ""
LastOrEmpty_First(candidates) == IF candidates # <<>> THEN candidates[1] ELSE <<>>
LastOrEmpty(candidates) == IF candidates # <<>> THEN candidates[Len(candidates)] ELSE <<>>
FlightCandidates(p_texts) == SelectSeq(p_texts, LAMBDA t : ReSearch(t, ReFlightCandidate).ok)
extract_flight_and_cabin_info(row) ==
  IF "cell_2" \notin row.cells THEN Raised("NoSuchElementException")
  ELSE [ok |-> TRUE,
        pair |-> parse_flight_and_cabin(
                   LastOrEmpty(FlightCandidates(NonEmpty(StripAll(row.cell_2)))))]

\* FlightDataExtractor._extract_airport_and_time
\* Lines 506-508: parse_date_time is not inside a try
AirportAndParsed(airport, parsed) ==
  IF ~parsed.ok THEN parsed
  ELSE [ok |-> TRUE, airport |-> airport, dt |-> parsed.dt]
\* Lines 502-510: the time line, if there is one
AirportAndTimeLine(airport, time_line, assumed_year) ==
  IF time_line = PyNone \/ time_line = <<>>
  THEN [ok |-> TRUE, airport |-> airport, dt |-> PyNone]
  ELSE AirportAndParsed(airport, parse_date_time(time_line, assumed_year))
\* Lines 494-510: the p texts of the cell
AirportAndTimeOf(cell_ps, assumed_year) ==
  AirportAndTimeLine(IF cell_ps = <<>> THEN <<>> ELSE extract_iata(cell_ps[1]),
                     FirstMatching(cell_ps, ReTimeLine, PyNone), assumed_year)
extract_airport_and_time(row, cell_class, assumed_year) ==
  IF cell_class \notin row.cells THEN Raised("NoSuchElementException")
  ELSE AirportAndTimeOf(StripAll(row[cell_class]), assumed_year)

\* FlightDataExtractor._extract_equipment_and_duration
\* others[0] if others else ""
FirstOrEmpty(others) == IF others # <<>> THEN others[1] ELSE <<>>
\* Lines 549-559: the duration line and the other texts of the cell
EquipmentAndDurationLine(cell6_ps, dur_line) ==
  IF cell6_ps = <<>> THEN [ok |-> TRUE, equipment |-> <<>>, duration |-> timedelta(0, 0)]
  ELSE IF dur_line # <<>>
  THEN [ok |-> TRUE,
        equipment |-> FirstOrEmpty(SelectSeq(cell6_ps, LAMBDA t : t # dur_line)),
        duration |-> parse_duration_to_timedelta(dur_line)]
  ELSE [ok |-> TRUE, equipment |-> cell6_ps[1], duration |-> timedelta(0, 0)]
EquipmentAndDurationOf(cell6_ps) ==
  EquipmentAndDurationLine(cell6_ps, FirstMatching(cell6_ps, ReDurationLine, <<>>))
extract_equipment_and_duration(row) ==
  IF "cell_6" \notin row.cells THEN Raised("NoSuchElementException")
  ELSE EquipmentAndDurationOf(NonEmpty(StripAll(row.cell_6)))

\* FlightDataExtractor._extract_segment_data
SegmentDataOf(flight, dep, arr, equipment) ==
  IF ~flight.ok THEN flight
  ELSE IF ~dep.ok THEN dep
  ELSE IF ~arr.ok THEN arr
  ELSE IF ~equipment.ok THEN equipment
  ELSE [ok |-> TRUE,
        data |-> [flight_no |-> flight.pair[1], cabin_and_code |-> flight.pair[2],
                  dep_airport |-> dep.airport, arr_airport |-> arr.airport,
                  dep_time |-> format_datetime_to_string(dep.dt),
                  arr_time |-> format_datetime_to_string(arr.dt),
                  equipment |-> equipment.equipment,
                  duration |-> format_timedelta_to_hhmm(equipment.duration)]]
extract_segment_data(row, assumed_year) ==
  SegmentDataOf(extract_flight_and_cabin_info(row),
                extract_airport_and_time(row, "cell_3", assumed_year),
                extract_airport_and_time(row, "cell_5", assumed_year),
                extract_equipment_and_duration(row))
\* _write_segment_to_record writing every segment to slot 1.
write_segment_to_record_FirstSlot(record, segment_data, direction, index) ==
  [ok |-> TRUE,
   record |-> DictUpdate(record,
                [key \in {direction} \X SegmentFields \X {1} |-> segment_data[key[2]]])]
\* FlightDataExtractor._write_segment_to_record
write_segment_to_record(record, segment_data, direction, index) ==
  IF direction \notin Directions THEN Raised("ValueError")
  ELSE IF ~(1 <= index /\ index <= 3) THEN Raised("ValueError")
  ELSE [ok |-> TRUE,
        record |-> DictUpdate(record,
                     [key \in {direction} \X SegmentFields \X {index} |-> segment_data[key[2]]])]
\* The limit of three segments for a direction is never applied.
SegmentLimitReached_Never(index, direction) == FALSE
\* if segment_index[direction] > 3: continue
SegmentLimitReached(index, direction) == index[direction] > MaxSegments

\* The dates extract_and_clean_flight_data is called with.
DatePairs ==
  {<<<<"2", "0", "2", "5", "/", "1", "2", "/", "3", "0">>, <<"2", "0", "2", "6", "/", "0", "1", "/", "0", "3">>>>,
   <<<<"2", "0", "2", "5", "/", "1", "0", "/", "1", "5">>, <<>>>>, <<<<"1", "0", "-", "1", "5">>, <<"2", "0", "2", "5", "/", "1", "0", "/", "2", "0">>>>}
\* FlightDataExtractor._validate_extract_parameters (the card is an element)
validate_extract_parameters(start_date, return_date) ==
  IF start_date = PyNone \/ start_date = <<>> THEN Raised("ValueError")
  ELSE IF return_date = PyNone \/ return_date = <<>> THEN Raised("ValueError")
  ELSE IF ~IntOk(SplitHead(start_date, "/")) THEN Raised("ValueError")
  ELSE IF ~IntOk(SplitHead(return_date, "/")) THEN Raised("ValueError")
  ELSE [ok |-> TRUE, year_outbound |-> IntVal(SplitHead(start_date, "/")),
        year_inbound |-> IntVal(SplitHead(return_date, "/"))]

\* The years of the dates of DatePairs, and _extract_segment_data of every row
\* of the catalogue in each of them.
AssumedYears == {2025, 2026}
SegmentData ==
  [r \in 1..Len(SegmentRows) |->
     [year \in AssumedYears |-> extract_segment_data(SegmentRows[r], year)] @@ <<>>] @@ <<>>

\* ------------------------------------------------------------------------
\* The baggage tab of a card
\* ------------------------------------------------------------------------
GongJin == <<"u516C", "u65A4">>  \* 公斤
Jian == <<"u4EF6">>       \* 件
\* (\d+)\s*(公斤|件)?
ReAllowance ==
  Open(1) \o Plus(ReDigit) \o Close(1)
  \o Ws(OptGroup(Open(2) \o Alt(Lit(GongJin), Lit(Jian)) \o Close(2)))
\* (\w+)\s+.*?－\s*(\w+)
ReAirportPair ==
  Open(1) \o Plus(ReWord) \o Close(1) \o Plus(ReSpace) \o ClsLazy(ReDot, 0, Unbounded)
  \o Ch(FWDash) \o Ws(Open(2)) \o Plus(ReWord) \o Close(2)

\* cleaned_baggage_info of lines 1030-1036: f"{value}{unit}", or None
CleanBaggage(adult_baggage_text) ==
  LET match == ReSearch(adult_baggage_text, ReAllowance)
  IN IF match.ok
     THEN RenderNat(IntVal(Group(adult_baggage_text, match, 1)))
          \o Group(adult_baggage_text, match, 2)
     ELSE PyNone
\* dep_airport_code and arr_airport_code of lines 1038-1040
AirportPair(segment_text) ==
  LET airport_match == ReSearch(segment_text, ReAirportPair)
  IN IF airport_match.ok
     THEN <<Group(segment_text, airport_match, 1), Group(segment_text, airport_match, 2)>>
     ELSE <<PyNone, PyNone>>
\* The slot keys of lines 1044-1047.
DepKey(direction, i) == <<direction, "dep_airport", i>>
ArrKey(direction, i) == <<direction, "arr_airport", i>>
SlotMatches(details, direction, i, pair) ==
  /\ DictGet(details, DepKey(direction, i)) = pair[1]
  /\ DictGet(details, ArrKey(direction, i)) = pair[2]
NoJourney == "none"
\* The journey type with outbound as the default of a row no slot matches.
JourneyType_DefaultOutbound(details, pair) ==
  IF \E i \in 1..3 : SlotMatches(details, Inbound, i, pair)
                      /\ ~\E j \in 1..i : SlotMatches(details, Outbound, j, pair)
  THEN Inbound ELSE Outbound
\* The journey type when the inbound slot is looked at before the outbound one.
JourneyType_InboundFirst(details, pair) ==
  LET hits == {i \in 1..3 : SlotMatches(details, Outbound, i, pair)
                            \/ SlotMatches(details, Inbound, i, pair)}
  IN IF hits = {} THEN NoJourney
     ELSE IF SlotMatches(details, Inbound, SetMin(hits), pair) THEN Inbound
     ELSE Outbound
\* The journey type when the outbound slots are all looked at before the
\* inbound ones.
JourneyType_OutboundFirst(details, pair) ==
  IF \E i \in 1..3 : SlotMatches(details, Outbound, i, pair) THEN Outbound
  ELSE IF \E i \in 1..3 : SlotMatches(details, Inbound, i, pair) THEN Inbound
  ELSE NoJourney
\* current_journey_type of lines 1042-1060: the first slot i in 1, 2, 3 whose
\* outbound pair, or else whose inbound pair, is the pair of the row.
JourneyType(details, pair) ==
  LET hits == {i \in 1..3 : SlotMatches(details, Outbound, i, pair)
                            \/ SlotMatches(details, Inbound, i, pair)}
  IN IF hits = {} THEN NoJourney
     ELSE IF SlotMatches(details, Outbound, SetMin(hits), pair) THEN Outbound
     ELSE Inbound
BaggageKey(direction, k) == <<direction, "baggage", k>>

\* The rows of the baggage table: the cells present and their texts; dep and
\* arr say which airports the row was written for (not read by the program).
BaggageCells == {"segment", "flight_num", "adult"}
BaggageRows ==
  << [cells |-> BaggageCells, segment_text |-> <<"T", "P", "E", " ", "u53F0", "u5317", " ", "uFF0D", " ", "N", "R", "T", " ", "u6771", "u4EAC">>,
      flight_num_text |-> <<"B", "R", "1", "9", "8">>, adult_baggage_text |-> <<"2", "3", "u516C", "u65A4">>,
      dep |-> <<"T", "P", "E">>, arr |-> <<"N", "R", "T">>, allowance |-> <<"2", "3", "u516C", "u65A4">>],
     [cells |-> BaggageCells, segment_text |-> <<"N", "R", "T", " ", "u6771", "u4EAC", " ", "uFF0D", "T", "P", "E", " ", "u53F0", "u5317">>,
      flight_num_text |-> <<"U", "A", "8", "5", "2">>, adult_baggage_text |-> <<"u6210", "u4EBA", " ", "0", "2", " ", "u4EF6">>,
      dep |-> <<"N", "R", "T">>, arr |-> <<"T", "P", "E">>, allowance |-> <<"2", "u4EF6">>],
     [cells |-> BaggageCells, segment_text |-> <<"N", "R", "T", " ", "u6771", "u4EAC", " ", "uFF0D", " ", "S", "F", "O", " ", "u820A", "u91D1", "u5C71">>,
      flight_num_text |-> <<"U", "A", "8", "3", "8">>, adult_baggage_text |-> <<"1", " ", "P", "C">>,
      dep |-> <<"N", "R", "T">>, arr |-> <<"S", "F", "O">>, allowance |-> <<"1">>],
     [cells |-> BaggageCells, segment_text |-> <<"T", "P", "E", "-", "N", "R", "T">>,
      flight_num_text |-> <<"B", "R", "1", "9", "8">>, adult_baggage_text |-> <<>>,
      dep |-> PyNone, arr |-> PyNone, allowance |-> PyNone],
     [cells |-> {"segment"}, segment_text |-> <<"T", "P", "E", " ", "u53F0", "u5317", " ", "uFF0D", " ", "N", "R", "T", " ", "u6771", "u4EAC">>,
      flight_num_text |-> <<>>, adult_baggage_text |-> <<>>,
      dep |-> <<"T", "P", "E">>, arr |-> <<"N", "R", "T">>, allowance |-> PyNone] >>

\* The flight records the reconciler is called with: those the assembler
\* builds from the rows of an outbound and of an inbound journey block.
RECURSIVE WriteRows(_, _, _, _, _)
WriteRows(record, direction, rows, index, year) ==
  IF rows = <<>> THEN record
  ELSE WriteRows(write_segment_to_record(record,
                   extract_segment_data(SegmentRows[Head(rows)], year).data, direction, index).record,
                 direction, Tail(rows), index + 1, year)
Itineraries ==
  {<<<<1>>, <<2>>>>, <<<<1, 2>>, <<2, 1>>>>, <<<<2>>, <<>>>>, <<<<>>, <<>>>>, <<<<1>>, <<1>>>>}
FlightDetailsOf(itinerary) ==
  WriteRows(WriteRows(initialize_flight_record, Outbound, itinerary[1], 1, 2025),
            Inbound, itinerary[2], 1, 2025)

\* ========================================================================
\* State
\* ========================================================================
VARIABLES
  \* --- the fare dialog and extract_and_clean_price_data
  dialog_src,      \* what the dialog text was written from (not read by the program)
  modal_text,      \* the text of the element DBGModal
  price_pc,        \* idle, start, formula, fields, fallback, returned, raised
  price_path,      \* how the dialog was reached: none, no_driver, wait_timeout, modal_missing, read
  price_record,    \* record
  formula_line,    \* formula_line
  fallback_ran,    \* which fallback searches were run
  price_extracted, \* the returned list
  \* --- breakpoint() calls: <<site, row, outcome>>
  breakpoint_log,
  \* --- collect_all_flight_data
  collect_pc,      \* idle, price, appended, raised
  flight_extracted,
  card_baggage_info,
  extracted_rows,
  clock,           \* time.time()
  \* --- extract_and_clean_flight_data
  flight_pc,       \* idle, start, tables, rows, returned, raised
  start_date,
  return_date,
  assumed_years,   \* <<year_outbound, year_inbound>>
  flight_record,   \* record
  segment_index,
  n_tables,        \* len(outer_tables)
  table_idx,       \* idx
  outer_table,
  direction,
  rows,            \* the rows of the block: how many, and by which XPath
  row_idx,         \* rows of the block gone through
  flight_trace,    \* calls of _extract_segment_data, the last step and row, the index and slots written
  \* --- extract_and_clean_baggage_data
  baggage_pc,      \* idle, start, rows, returned, raised
  current_flight_details,
  n_baggage_rows,  \* len(baggage_rows)
  baggage_idx,     \* rows gone through
  outbound_baggage_counter,
  return_baggage_counter,
  baggage_seen,    \* the rows gone through (numbers in BaggageRows)
  baggage_assigned, \* current_journey_type of each of them
  printed_warnings, \* the warnings printed (flight_num_text)
  \* --- a call of one of the parsing functions
  call_pc,         \* idle, called, returned, raised
  call,            \* the function and its arguments
  result,          \* the value returned
  \* --- build_dataframe
  table_pc,        \* idle, called, called_with_none, returned, raised
  final_df,        \* final_df: its columns and rows
  \* --- _extract_flight_and_cabin_info
  retry_pc,        \* idle, called, read, sleep, parse, returned, raised
  cell2_found,     \* whether the row has a td.cell_2
  cell2,           \* the texts of the <p> elements td.cell_2 shows now
  retry_reads,     \* p_texts of each pass of the loop
  flight_and_cabin_text,\* flight_and_cabin_text
  retry_result,    \* the pair returned, or the exception
  \* --- collect_all_flight_data: the loops
  loop_pc,         \* idle, cards, departures, returns, flight, baggage, price, overlay, append, returned, raised
  flight_cards,    \* the cards of the page
  card_index,      \* cards gone through
  dep_count,       \* dep_count
  ret_count,       \* ret_count
  d_idx,           \* departure options gone through, the last one being the current
  r_idx,           \* return options gone through, the last one being the current
  selected,        \* the options selected on each card
  loop_trace,      \* the steps taken: step, card, departure option, return option
  \* --- login_with_retry and run_scraping_task
  task_pc,         \* idle, called, create, login, login_loop, login_returned, login_raised, page, except, finally, returned, raised
  task_args,       \* the four arguments of run_scraping_task
  driver,          \* none, open, quit
  quit_calls,      \* calls of driver.quit()
  max_retries,     \* max_retries
  retries,         \* retries
  login_attempts,  \* how each call of login_to_website ended
  login_declared,  \* none, success, failure: what login_with_retry printed
  driver_ops,      \* the uses of the driver, and its state at each
  task_step,       \* calls after the login gone through
  task_exception,  \* the exception on its way out
  task_outcome,    \* none, returned, or the exception the call raised
  \* --- extract_and_clean_flight_data of colatour_fetch_data.py
  legacy_pc,       \* idle, start, tables, rows, returned, raised
  legacy_record,   \* record
  legacy_segment_index,\* segment_index
  legacy_n_tables, \* len(outer_tables)
  legacy_position, \* blocks enumerate has gone through
  legacy_idx,      \* idx: the position of the block, then the slot number
  legacy_direction,\* direction
  legacy_assumed_year,\* assumed_year
  legacy_rows,     \* rows
  legacy_row_idx,  \* rows of the block gone through
  legacy_written,  \* the slots written, in order
  legacy_results   \* results

price_vars == <<dialog_src, modal_text, price_pc, price_path, price_record, formula_line,
                fallback_ran, price_extracted>>
collect_vars == <<collect_pc, flight_extracted, card_baggage_info, extracted_rows, clock>>
flight_vars == <<flight_pc, start_date, return_date, assumed_years, flight_record,
                 segment_index, n_tables, table_idx, outer_table, direction, rows, row_idx,
                 flight_trace>>
baggage_vars == <<baggage_pc, current_flight_details, n_baggage_rows, baggage_idx,
                  outbound_baggage_counter, return_baggage_counter, baggage_seen,
                  baggage_assigned, printed_warnings>>
pure_vars == <<call_pc, call, result>>
table_vars == <<table_pc, final_df>>
retry_vars == <<retry_pc, cell2_found, cell2, retry_reads, flight_and_cabin_text,
                retry_result>>
loop_vars == <<loop_pc, flight_cards, card_index, dep_count, ret_count, d_idx, r_idx,
               selected, loop_trace>>
task_vars == <<task_pc, task_args, driver, quit_calls, max_retries, retries,
               login_attempts, login_declared, driver_ops, task_step, task_exception,
               task_outcome>>
legacy_vars == <<legacy_pc, legacy_record, legacy_segment_index, legacy_n_tables,
                 legacy_position, legacy_idx, legacy_direction, legacy_assumed_year,
                 legacy_rows, legacy_row_idx, legacy_written, legacy_results>>
vars == <<price_vars, breakpoint_log, collect_vars, flight_vars, baggage_vars, pure_vars,
          table_vars, retry_vars, loop_vars, task_vars, legacy_vars>>

\* ========================================================================
\* extract_and_clean_price_data
\* ========================================================================
\* What breakpoint() can do: the operator continues ("resume"; also when
\* PYTHONBREAKPOINT=0 makes it a no-op), or the debugger is quit and bdb.BdbQuit
\* is raised, inside the call ("quit_in_call": interpreters that stop in the
\* calling line) or at the next line of the caller ("quit_after_call").
BreakpointOutcomes == {"resume", "quit_in_call", "quit_after_call"}
\* Whether execution goes on after a breakpoint() wrapped in try / except Exception.
ContinuesAfterGuardedBreakpoint(outcome) == outcome # "quit_after_call"

PriceIdle ==
  /\ dialog_src = [formula |-> FALSE]
  /\ modal_text = <<>>
  /\ price_pc = "idle"
  /\ price_path = "none"
  /\ price_record = PriceRecordDefault
  /\ formula_line = <<>>
  /\ fallback_ran = {}
  /\ price_extracted = <<>>

\* Lines 845-894: the driver, the wait for DBGModal, the element, GDS Type and
\* the formula line.
PriceOpenDialog ==
  /\ price_pc = "start"
  /\ \E path \in {"no_driver", "wait_timeout", "modal_missing", "read"} :
       /\ price_path' = path
       /\ IF path = "read"
          THEN /\ price_record' = ParseGdsType(PriceRecordDefault, modal_text)
               /\ formula_line' = FormulaLine(modal_text)
               /\ price_pc' = "formula"
               /\ price_extracted' = <<>>
          ELSE /\ price_record' = PriceRecordDefault
               /\ formula_line' = <<>>
               /\ price_pc' = "returned"
               /\ price_extracted' = <<PriceRecordDefault>>
  /\ UNCHANGED <<dialog_src, modal_text, fallback_ran, breakpoint_log, collect_vars,
                 flight_vars, baggage_vars>>
  /\ UNCHANGED <<pure_vars, table_vars>>
  /\ UNCHANGED <<retry_vars, loop_vars, task_vars, legacy_vars>>

\* Lines 896-915: the shape, and the breakpoint of the else branch.
PriceClassify ==
  /\ price_pc = "formula"
  /\ formula_line # <<>>
  /\ price_record' = [price_record EXCEPT !.FormulaType = ClassifyShape(formula_line)]
  /\ IF UnknownShape(formula_line)
     THEN \E outcome \in BreakpointOutcomes :
            /\ breakpoint_log' = Append(breakpoint_log, <<"price", 0, outcome>>)
            /\ price_pc' = IF ContinuesAfterGuardedBreakpoint(outcome) THEN "fields" ELSE "raised"
     ELSE /\ price_pc' = "fields"
          /\ UNCHANGED breakpoint_log
  /\ UNCHANGED <<dialog_src, modal_text, price_path, formula_line, fallback_ran,
                 price_extracted, collect_vars,
                 flight_vars, baggage_vars>>
  /\ UNCHANGED <<pure_vars, table_vars>>
  /\ UNCHANGED <<retry_vars, loop_vars, task_vars, legacy_vars>>

\* Line 896, formula_line empty: the whole formula step is skipped.
PriceNoFormula ==
  /\ price_pc = "formula"
  /\ formula_line = <<>>
  /\ price_pc' = "fallback"
  /\ UNCHANGED <<dialog_src, modal_text, price_path, price_record, formula_line, fallback_ran,
                 price_extracted, breakpoint_log, collect_vars,
                 flight_vars, baggage_vars>>
  /\ UNCHANGED <<pure_vars, table_vars>>
  /\ UNCHANGED <<retry_vars, loop_vars, task_vars, legacy_vars>>

\* Lines 917-954: the fields of the formula.
PriceExtractFields ==
  /\ price_pc = "fields"
  /\ price_record' = ExtractFormulaFields(price_record, formula_line)
  /\ price_pc' = "fallback"
  /\ UNCHANGED <<dialog_src, modal_text, price_path, formula_line, fallback_ran,
                 price_extracted, breakpoint_log, collect_vars,
                 flight_vars, baggage_vars>>
  /\ UNCHANGED <<pure_vars, table_vars>>
  /\ UNCHANGED <<retry_vars, loop_vars, task_vars, legacy_vars>>

\* Lines 956-968: the fallback searches, and the return.
PriceFallback ==
  /\ price_pc = "fallback"
  /\ LET after_tax == FallbackTax(price_record, modal_text)
         after_total == FallbackTotal(after_tax, modal_text)
     IN /\ price_record' = after_total
        /\ fallback_ran' = (IF TaxFallbackRuns(price_record) THEN {"tax"} ELSE {})
                           \cup (IF TotalFallbackRuns(after_tax) THEN {"total"} ELSE {})
        /\ price_extracted' = <<after_total>>
  /\ price_pc' = "returned"
  /\ UNCHANGED <<dialog_src, modal_text, price_path, formula_line, breakpoint_log, collect_vars,
                 flight_vars, baggage_vars>>
  /\ UNCHANGED <<pure_vars, table_vars>>
  /\ UNCHANGED <<retry_vars, loop_vars, task_vars, legacy_vars>>

\* ========================================================================
\* collect_all_flight_data: the price step of one fare-option combination
\* ========================================================================
\* {**flight_extracted[0], **price_extracted[0], **card_baggage_info, "建立時間": created_at}
\* (the three key sets are disjoint, so the merge is kept as its three parts)
MergedRow(flight, price, baggage, created_at) ==
  [flight |-> flight, price |-> price, baggage |-> baggage, created_at |-> created_at]

\* Lines 163-172: the overlay is clicked and the merged row is appended.
CollectAppendRow ==
  /\ collect_pc = "price"
  /\ price_pc = "returned"
  /\ \E overlay_found \in BOOLEAN :
       IF overlay_found
       THEN /\ extracted_rows' = Append(extracted_rows,
                 MergedRow(flight_extracted[1], price_extracted[1], card_baggage_info, clock))
            /\ clock' = clock + 1
            /\ collect_pc' = "appended"
       ELSE /\ collect_pc' = "raised"
            /\ UNCHANGED <<extracted_rows, clock>>
  /\ UNCHANGED <<price_vars, breakpoint_log, flight_extracted, card_baggage_info,
                 flight_vars, baggage_vars>>
  /\ UNCHANGED <<pure_vars, table_vars>>
  /\ UNCHANGED <<retry_vars, loop_vars, task_vars, legacy_vars>>

\* Line 161: an exception of extract_and_clean_price_data leaves the loop.
CollectPriceRaised ==
  /\ collect_pc = "price"
  /\ price_pc = "raised"
  /\ collect_pc' = "raised"
  /\ UNCHANGED <<price_vars, breakpoint_log, flight_extracted, card_baggage_info,
                 extracted_rows, clock, flight_vars, baggage_vars>>
  /\ UNCHANGED <<pure_vars, table_vars>>
  /\ UNCHANGED <<retry_vars, loop_vars, task_vars, legacy_vars>>

\* ========================================================================
\* extract_and_clean_flight_data
\* ========================================================================
MaxBlocks == 3   \* journey blocks of a card
MaxRows == 5     \* candidate rows of a journey block

NoTrace == [extractions |-> 0, last |-> "none", index |-> 0, slots |-> {}, row |-> 0]
FlightIdle ==
  /\ flight_pc = "idle"
  /\ start_date = <<>>
  /\ return_date = <<>>
  /\ assumed_years = <<0, 0>>
  /\ flight_record = EmptyDict
  /\ segment_index = [d \in Directions |-> 1]
  /\ n_tables = 0
  /\ table_idx = 0
  /\ outer_table = NoTable
  /\ direction = Outbound
  /\ rows = [n |-> 0, via |-> "loose"]
  /\ row_idx = 0
  /\ flight_trace = NoTrace

\* Lines 713-723: the years, the empty record, the indices and the journey blocks.
FlightBegin ==
  /\ flight_pc = "start"
  /\ LET years == validate_extract_parameters(start_date, return_date)
     IN IF years.ok
        THEN /\ assumed_years' = <<years.year_outbound, years.year_inbound>>
             /\ flight_record' = initialize_flight_record
             /\ segment_index' = [d \in Directions |-> 1]
             /\ \E n \in 0..MaxBlocks : n_tables' = n
             /\ table_idx' = 0
             /\ flight_pc' = "tables"
        ELSE /\ flight_pc' = "raised"
             /\ UNCHANGED <<assumed_years, flight_record, segment_index, n_tables, table_idx>>
  /\ UNCHANGED <<start_date, return_date, outer_table, direction, rows, row_idx, flight_trace,
                 price_vars, breakpoint_log, collect_vars, baggage_vars>>
  /\ UNCHANGED <<pure_vars, table_vars>>
  /\ UNCHANGED <<retry_vars, loop_vars, task_vars, legacy_vars>>

\* Lines 726-732: the next journey block, its direction and its rows.
FlightEnterBlock ==
  /\ flight_pc = "tables"
  /\ table_idx < n_tables
  /\ \E tbl \in OuterTables, strict_rows \in 0..MaxRows, loose_rows \in 0..MaxRows :
       \* a row of the precise XPath is one of the looser XPath too; the looser
       \* count is read only when the precise one is 0
       /\ strict_rows <= loose_rows
       /\ strict_rows # 0 => loose_rows = strict_rows
       /\ outer_table' = tbl
       /\ direction' = determine_flight_direction(tbl, table_idx)
       /\ rows' = find_segment_rows(strict_rows, loose_rows)
  /\ row_idx' = 0
  /\ flight_pc' = "rows"
  /\ UNCHANGED <<start_date, return_date, assumed_years, flight_record, segment_index,
                 n_tables, table_idx, flight_trace,
                 price_vars, breakpoint_log, collect_vars, baggage_vars>>
  /\ UNCHANGED <<pure_vars, table_vars>>
  /\ UNCHANGED <<retry_vars, loop_vars, task_vars, legacy_vars>>

\* Lines 737-738: a row of a direction that already has three segments.
FlightSkipRow ==
  /\ flight_pc = "rows"
  /\ row_idx < rows.n
  /\ SegmentLimitReached(segment_index, direction)
  /\ row_idx' = row_idx + 1
  /\ flight_trace' = [flight_trace EXCEPT !.last = "skipped"]
  /\ UNCHANGED <<flight_pc, start_date, return_date, assumed_years, flight_record,
                 segment_index, n_tables, table_idx, outer_table, direction, rows,
                 price_vars, breakpoint_log, collect_vars, baggage_vars>>
  /\ UNCHANGED <<pure_vars, table_vars>>
  /\ UNCHANGED <<retry_vars, loop_vars, task_vars, legacy_vars>>

\* Lines 741-752: the row is extracted, written to its slot, and the index of
\* the direction goes up.
FlightExtractRow ==
  /\ flight_pc = "rows"
  /\ row_idx < rows.n
  /\ ~SegmentLimitReached(segment_index, direction)
  /\ \E r \in RowsAt(rows.via, table_idx, row_idx) :
       LET assumed_year == IF direction = Inbound THEN assumed_years[2] ELSE assumed_years[1]
           segment == SegmentData[r][assumed_year]
           index == segment_index[direction]
           written == write_segment_to_record(flight_record, segment.data, direction, index)
       IN IF ~segment.ok
          THEN /\ flight_pc' = "raised"
               /\ flight_trace' = [flight_trace EXCEPT !.extractions = @ + 1,
                                                        !.last = "extract_raised", !.row = r]
               /\ UNCHANGED <<flight_record, segment_index, row_idx>>
          ELSE IF ~written.ok
          THEN /\ flight_pc' = "raised"
               /\ flight_trace' = [flight_trace EXCEPT !.extractions = @ + 1,
                                                        !.last = "write_raised", !.index = index,
                                                        !.row = r]
               /\ UNCHANGED <<flight_record, segment_index, row_idx>>
          ELSE /\ flight_record' = written.record
               /\ segment_index' = [segment_index EXCEPT ![direction] = index + 1]
               /\ row_idx' = row_idx + 1
               /\ flight_trace' = [extractions |-> flight_trace.extractions + 1,
                                   last |-> "written", index |-> index,
                                   slots |-> flight_trace.slots \cup {<<direction, index>>},
                                   row |-> r]
               /\ UNCHANGED flight_pc
  /\ UNCHANGED <<start_date, return_date, assumed_years, n_tables, table_idx, outer_table,
                 direction, rows,
                 price_vars, breakpoint_log, collect_vars, baggage_vars>>
  /\ UNCHANGED <<pure_vars, table_vars>>
  /\ UNCHANGED <<retry_vars, loop_vars, task_vars, legacy_vars>>

\* Line 735, rows exhausted: on to the next journey block.
FlightBlockDone ==
  /\ flight_pc = "rows"
  /\ row_idx = rows.n
  /\ table_idx' = table_idx + 1
  /\ flight_pc' = "tables"
  /\ UNCHANGED <<start_date, return_date, assumed_years, flight_record, segment_index,
                 n_tables, outer_table, direction, rows, row_idx, flight_trace,
                 price_vars, breakpoint_log, collect_vars, baggage_vars>>
  /\ UNCHANGED <<pure_vars, table_vars>>
  /\ UNCHANGED <<retry_vars, loop_vars, task_vars, legacy_vars>>

\* Line 755: return [record]
FlightReturn ==
  /\ flight_pc = "tables"
  /\ table_idx = n_tables
  /\ flight_extracted' = <<flight_record>>
  /\ flight_pc' = "returned"
  /\ UNCHANGED <<start_date, return_date, assumed_years, flight_record, segment_index,
                 n_tables, table_idx, outer_table, direction, rows, row_idx, flight_trace,
                 price_vars, breakpoint_log, baggage_vars,
                 collect_pc, card_baggage_info, extracted_rows, clock>>
  /\ UNCHANGED <<pure_vars, table_vars>>
  /\ UNCHANGED <<retry_vars, loop_vars, task_vars, legacy_vars>>

\* ========================================================================
\* extract_and_clean_baggage_data
\* ========================================================================
MaxBaggageRows == 4   \* rows of the baggage table

BaggageIdle ==
  /\ baggage_pc = "idle"
  /\ current_flight_details = EmptyDict
  /\ n_baggage_rows = 0
  /\ baggage_idx = 0
  /\ outbound_baggage_counter = 0
  /\ return_baggage_counter = 0
  /\ baggage_seen = <<>>
  /\ baggage_assigned = <<>>
  /\ printed_warnings = <<>>

\* Lines 1014-1018: the empty mapping, the counters and the rows of the table.
BaggageBegin ==
  /\ baggage_pc = "start"
  /\ card_baggage_info' = EmptyDict
  /\ outbound_baggage_counter' = 0
  /\ return_baggage_counter' = 0
  /\ \E n \in 0..MaxBaggageRows : n_baggage_rows' = n
  /\ baggage_idx' = 0
  /\ baggage_pc' = "rows"
  /\ UNCHANGED <<current_flight_details, baggage_seen, baggage_assigned, printed_warnings,
                 price_vars, breakpoint_log, flight_vars,
                 collect_pc, flight_extracted, extracted_rows, clock>>
  /\ UNCHANGED <<pure_vars, table_vars>>
  /\ UNCHANGED <<retry_vars, loop_vars, task_vars, legacy_vars>>

\* Lines 1020-1070: one row of the table.
BaggageRow ==
  /\ baggage_pc = "rows"
  /\ baggage_idx < n_baggage_rows
  /\ \E r \in 1..Len(BaggageRows) :
       LET row == BaggageRows[r]
           cleaned_baggage_info == CleanBaggage(Strip(row.adult_baggage_text))
           pair == AirportPair(Strip(row.segment_text))
           current_journey_type == JourneyType(current_flight_details, pair)
       IN /\ baggage_seen' = Append(baggage_seen, r)
          /\ IF row.cells # BaggageCells
             THEN \* find_element raises NoSuchElementException
                  /\ baggage_pc' = "raised"
                  /\ baggage_assigned' = Append(baggage_assigned, "raised")
                  /\ UNCHANGED <<baggage_idx, outbound_baggage_counter, return_baggage_counter,
                                 card_baggage_info, printed_warnings, breakpoint_log>>
             ELSE /\ baggage_assigned' = Append(baggage_assigned, current_journey_type)
                  /\ IF current_journey_type = Outbound
                     THEN /\ outbound_baggage_counter' = outbound_baggage_counter + 1
                          /\ card_baggage_info' =
                               DictUpdate(card_baggage_info,
                                 [key \in {BaggageKey(Outbound, outbound_baggage_counter + 1)}
                                    |-> cleaned_baggage_info])
                          /\ baggage_idx' = baggage_idx + 1
                          /\ UNCHANGED <<baggage_pc, return_baggage_counter, printed_warnings,
                                         breakpoint_log>>
                     ELSE IF current_journey_type = Inbound
                     THEN /\ return_baggage_counter' = return_baggage_counter + 1
                          /\ card_baggage_info' =
                               DictUpdate(card_baggage_info,
                                 [key \in {BaggageKey(Inbound, return_baggage_counter + 1)}
                                    |-> cleaned_baggage_info])
                          /\ baggage_idx' = baggage_idx + 1
                          /\ UNCHANGED <<baggage_pc, outbound_baggage_counter, printed_warnings,
                                         breakpoint_log>>
                     ELSE \* breakpoint(), outside any try, then the warning
                          \E outcome \in BreakpointOutcomes :
                            /\ breakpoint_log' =
                                 Append(breakpoint_log, <<"baggage", baggage_idx + 1, outcome>>)
                            /\ IF outcome = "resume"
                               THEN /\ printed_warnings' =
                                         Append(printed_warnings, row.flight_num_text)
                                    /\ baggage_idx' = baggage_idx + 1
                                    /\ UNCHANGED baggage_pc
                               ELSE /\ baggage_pc' = "raised"
                                    /\ UNCHANGED <<printed_warnings, baggage_idx>>
                            /\ UNCHANGED <<outbound_baggage_counter, return_baggage_counter,
                                           card_baggage_info>>
  /\ UNCHANGED <<current_flight_details, n_baggage_rows,
                 price_vars, flight_vars,
                 collect_pc, flight_extracted, extracted_rows, clock>>
  /\ UNCHANGED <<pure_vars, table_vars>>
  /\ UNCHANGED <<retry_vars, loop_vars, task_vars, legacy_vars>>

\* Line 1072: return card_baggage_info
BaggageReturn ==
  /\ baggage_pc = "rows"
  /\ baggage_idx = n_baggage_rows
  /\ baggage_pc' = "returned"
  /\ UNCHANGED <<current_flight_details, n_baggage_rows, baggage_idx, outbound_baggage_counter,
                 return_baggage_counter, baggage_seen, baggage_assigned, printed_warnings,
                 price_vars, breakpoint_log, flight_vars, collect_vars>>
  /\ UNCHANGED <<pure_vars, table_vars>>
  /\ UNCHANGED <<retry_vars, loop_vars, task_vars, legacy_vars>>

\* ========================================================================
\* build_dataframe
\* ========================================================================
MaxTableRows == 3   \* rows of extracted_rows

\* The eight fields of a segment and the eleven price fields, in the order of
\* column_order.
SegmentFieldOrder ==
  <<"flight_no", "cabin_and_code", "dep_airport", "arr_airport",
    "dep_time", "arr_time", "equipment", "duration">>
PriceFieldOrder ==
  <<"GDSType", "FareBasis", "BaseFare", "DiscountPct", "PriceFactor", "Tax", "TaxFactor",
    "Fixed", "Total", "FormulaType", "Discount">>
RECURSIVE Concat(_)
Concat(lists) == IF lists = <<>> THEN <<>> ELSE Head(lists) \o Concat(Tail(lists))
\* The columns of a segment with the baggage column after the price fields.
column_order_BaggageLast ==
  Concat([n \in 1..2 |-> Concat([i \in 1..3 |->
            [k \in 1..8 |-> <<(<<Outbound, Inbound>>)[n], SegmentFieldOrder[k], i>>]])])
  \o [k \in 1..11 |-> <<"price", PriceFieldOrder[k]>>]
  \o Concat([n \in 1..2 |-> [i \in 1..3 |-> BaggageKey((<<Outbound, Inbound>>)[n], i)]])
  \o <<<<"created_at">>>>
\* Lines 212-239: for d in [去程, 回程], for i in 1..3, the eight fields and
\* "{d}行李{i}"; then the price fields and 建立時間.  A price column is
\* <<"price", key>>, the timestamp column <<"created_at">>.
column_order ==
  Concat([n \in 1..2 |-> Concat([i \in 1..3 |->
            [k \in 1..8 |-> <<(<<Outbound, Inbound>>)[n], SegmentFieldOrder[k], i>>]
            \o <<BaggageKey((<<Outbound, Inbound>>)[n], i)>>])])
  \o [k \in 1..11 |-> <<"price", PriceFieldOrder[k]>>]
  \o <<<<"created_at">>>>
\* pd.DataFrame(extracted_rows): the value of a row under a column label, the
\* missing value when the row's dictionary has no such key.
Missing == PyNone
Cell(row, column) ==
  IF Len(column) = 1 THEN row.created_at
  ELSE IF Len(column) = 2
  THEN (IF column[2] \in DOMAIN row.price THEN row.price[column[2]] ELSE Missing)
  ELSE IF column \in DOMAIN row.flight THEN row.flight[column]
  ELSE IF column \in DOMAIN row.baggage THEN row.baggage[column]
  ELSE Missing
\* final_df.reindex(columns=column_order): each row by position of column
reindex(records, columns) ==
  [r \in 1..Len(records) |-> [k \in 1..Len(columns) |-> Cell(records[r], columns[k])]]
\* drop_duplicates keeping the last of equal records.
drop_duplicates_KeepLast(records) ==
  LET kept == {r \in 1..Len(records) : \A q \in (r + 1)..Len(records) : records[q] # records[r]}
      nth(k) == CHOOSE r \in kept : Cardinality({q \in kept : q < r}) = k - 1
  IN [k \in 1..Cardinality(kept) |-> records[nth(k)]]
\* final_df.drop_duplicates(): keep="first", all columns
drop_duplicates(records) ==
  LET kept == {r \in 1..Len(records) : \A q \in 1..(r - 1) : records[q] # records[r]}
      nth(k) == CHOOSE r \in kept : Cardinality({q \in kept : q < r}) = k - 1
  IN [k \in 1..Cardinality(kept) |-> records[nth(k)]]
\* DataFrameBuilder.build_dataframe, lines 212-248: called with a list
build_dataframe(records) ==
  IF records # <<>>
  THEN [ok |-> TRUE,
        final_df |-> [columns |-> column_order,
                      rows |-> drop_duplicates(reindex(records, column_order))]]
  ELSE [ok |-> TRUE, final_df |-> [columns |-> column_order, rows |-> <<>>]]

\* The merged rows of the lists build_dataframe is called with: two records of
\* flight data, two of price data, three of baggage data (one with a fourth
\* outbound allowance, which is no column of the table) and two timestamps.
FlightRecordA ==
  DictUpdate(initialize_flight_record,
             [key \in {<<Outbound, "flight_no", 1>>} |-> <<"B", "R", "1", "9", "8">>])
FlightRecordB ==
  DictUpdate(FlightRecordA, [key \in {<<Inbound, "flight_no", 1>>} |-> <<"U", "A", "8", "5", "2">>])
PriceRecordB == [PriceRecordDefault EXCEPT !.Total = 8346, !.FormulaType = 1]
BaggageOne == [key \in {BaggageKey(Outbound, 1)} |-> <<"2", "3">> \o GongJin]
BaggageFour ==
  DictUpdate(BaggageOne, [key \in {BaggageKey(Outbound, 4)} |-> <<"1">> \o Jian])
TableRows ==
  <<MergedRow(FlightRecordA, PriceRecordDefault, BaggageOne, 0),
    MergedRow(FlightRecordA, PriceRecordDefault, BaggageOne, 1),
    MergedRow(FlightRecordA, PriceRecordDefault, BaggageFour, 0),
    MergedRow(FlightRecordB, PriceRecordDefault, BaggageOne, 0),
    MergedRow(FlightRecordA, PriceRecordB, EmptyDict, 0)>>
TableInputs ==
  UNION {{[k \in 1..n |-> TableRows[picks[k]]] : picks \in [1..n -> 1..Len(TableRows)]} :
         n \in 0..MaxTableRows}

\* Lines 190-248: build_dataframe(extracted_rows), and build_dataframe(None)
\* (lines 209-210), which raises ValueError.
BuildDataframe ==
  /\ table_pc \in {"called", "called_with_none"}
  /\ LET built == IF table_pc = "called_with_none" THEN Raised("ValueError")
                  ELSE build_dataframe(extracted_rows)
     IN IF built.ok
        THEN /\ final_df' = built.final_df
             /\ table_pc' = "returned"
        ELSE /\ table_pc' = "raised"
             /\ UNCHANGED final_df
  /\ UNCHANGED <<price_vars, breakpoint_log, collect_vars, flight_vars, baggage_vars, pure_vars>>
  /\ UNCHANGED <<retry_vars, loop_vars, task_vars, legacy_vars>>

\* ========================================================================
\* Calls of the parsing functions
\* ========================================================================
PureIdle == call_pc = "idle" /\ call = <<>> /\ result = <<>>

\* --- texts parse_date_time is called with.  A text written from a source is
\* "MM/DD", the parenthesized content, a space and "HH:MM".
ParenContents == {<<>>, <<"(", "u4E09", ")">>, <<"(", "W", "e", "d", ")">>, <<"(", ")">>, <<"(", "(", "u4E09", ")">>, <<"(", "1", "0", "/", "1", "5", " ", "0", "8", ":", "0", "0", ")">>}
DateTimeSources ==
  [mo : {1, 2, 4, 12, 13}, d : {1, 28, 29, 30, 31}, h : {0, 9, 23}, mi : {0, 59},
   paren : ParenContents]
RenderDateTime(src) ==
  Pad2(src.mo) \o <<"/">> \o Pad2(src.d) \o src.paren \o <<Space>>
  \o Pad2(src.h) \o <<":">> \o Pad2(src.mi)
MalformedDateTimes ==
  {<<>>, <<"1", "0", "/", "1", "5">>, <<"1", "4", ":", "3", "0">>, <<"1", "0", "-", "1", "5", " ", "1", "4", ":", "3", "0">>, <<"1", "0", "/", "1", "5", "(", "u4E09", ")", "1", "4", ":", "3", "0">>, <<"1", "0", "/", "1", "5", " ", "1", "4", ":", "3", "0", " ", "+", "1">>,
   <<"1", "0", "/", "1", "5", " ", "(", "u4E09", " ", "1", "4", ":", "3", "0">>, <<"1", "0", "/", "1", "5", " ", "1", "4", ":", "3", "0", ":", "0", "0">>, <<"2", "0", "2", "5", "/", "1", "0", "/", "1", "5", " ", "1", "4", ":", "3", "0">>, <<"(", "1", "0", "/", "1", "5", " ", "1", "4", ":", "3", "0", ")">>}
CallYears == {2024, 2025}
DateTimeCalls ==
  {[fn |-> "parse_date_time", kind |-> "form", src |-> src, text |-> RenderDateTime(src),
    year |-> y] : src \in DateTimeSources, y \in CallYears}
  \cup {[fn |-> "parse_date_time", kind |-> "malformed", src |-> <<>>, text |-> t, year |-> y] :
          t \in MalformedDateTimes, y \in CallYears}
  \cup {[fn |-> "parse_date_time", kind |-> "none", src |-> <<>>, text |-> PyNone, year |-> y] :
          y \in CallYears}

\* --- texts parse_int is called with.  A text written from a source is the
\* value v with its sign, thousands separators, decimals and leading blank.
NumberSources ==
  [v : {0, 7, 1234, 1234567}, neg : BOOLEAN,
   sep : {<<>>, <<",">>, <<FWComma>>, <<Space>>, <<",", Space>>},
   frac : {<<>>, <<".">>, <<".", "5">>, <<".", "7", "5">>}, lead : {<<>>, <<Space>>}]
RenderNumber(src) ==
  src.lead \o (IF src.neg THEN <<"-">> ELSE <<>>) \o Grouped(RenderNat(src.v), src.sep) \o src.frac
NotNumbers ==
  {<<>>, <<",">>, <<",", " ">>, <<",", FWComma>>, <<" ">>, <<"a", "b", "c">>, <<"-">>, <<".">>, <<"1", ".", "2", ".", "3">>, <<"1", "2", "a">>,
   <<"-", "-", "5">>, <<"1", "-", "2">>, <<"(", "5", ")">>}
IntCalls ==
  {[fn |-> "parse_int", kind |-> "number", src |-> src, text |-> RenderNumber(src)] :
     src \in NumberSources}
  \cup {[fn |-> "parse_int", kind |-> "not_number", src |-> <<>>, text |-> t] : t \in NotNumbers}
  \cup {[fn |-> "parse_int", kind |-> "none", src |-> <<>>, text |-> PyNone]}

\* --- texts parse_flight_and_cabin is called with.
JingJiCang == <<"u7D93", "u6FDF", "u8259">>   \* 經濟艙
\* CODE NUMBER, cabin text, letter
StrictSources ==
  [lead : {<<>>, <<Space>>}, code : {<<"U", "A">>, <<"B", "R">>, <<"3", "U">>}, gap1 : {<<>>, <<Space>>},
   number : {<<"8", "5", "2">>, <<"5">>}, gap2 : {<<Space>>, <<Space, Space>>},
   cabin : {JingJiCang, <<>>, <<"P", "Y">>}, gap3 : {<<>>, <<Space>>}, letter : {<<"K">>, <<"W">>},
   trail : {<<>>, <<Space>>, <<Newline>>}]
RenderStrict(src) ==
  src.lead \o src.code \o src.gap1 \o src.number \o src.gap2 \o src.cabin \o src.gap3
  \o src.letter \o src.trail
\* The words joined by sep.
RECURSIVE JoinWords(_, _)
JoinWords(words, sep) ==
  IF words = <<>> THEN <<>>
  ELSE IF Len(words) = 1 THEN words[1]
  ELSE words[1] \o sep \o JoinWords(Tail(words), sep)
\* CODE NUMBER somewhere, and not the strict form: something before it, a cabin
\* of two words, or no letter at the end
LooseSources ==
  [before : {<<>>, QuCheng \o <<Space>>}, code : {<<"U", "A">>, <<"3", "U">>}, number : {<<"8", "5", "2">>},
   middle : {<<>>, <<"/">>},
   words : {<<>>, <<JingJiCang>>, <<<<"E", "c", "o", "n", "o", "m", "y">>>>, <<QuCheng, JingJiCang>>},
   gap : {<<>>, <<Space>>}, letter : {<<>>, <<"K">>}]
RenderLoose(src) ==
  src.before \o src.code \o src.number \o src.middle
  \o (IF src.words = <<>> /\ src.letter = <<>> THEN <<>>
      ELSE <<Space>> \o JoinWords(src.words, <<Space>>) \o src.gap \o src.letter)
IsStrictForm(src) ==
  src.before = <<>> /\ src.middle = <<>> /\ src.letter # <<>> /\ Len(src.words) <= 1
\* no CODE NUMBER: words separated by blanks
WordLists ==
  {<<>>, <<QuCheng>>, <<QuCheng, JingJiCang>>, <<QuCheng, JingJiCang, <<"K">>>>,
   <<<<"K">>, QuCheng, <<"W">>, JingJiCang>>, <<<<"U", "A">>, JingJiCang, <<"K">>>>}
FlightCalls ==
  {[fn |-> "parse_flight_and_cabin", kind |-> "strict", src |-> src, text |-> RenderStrict(src)] :
     src \in StrictSources}
  \cup {[fn |-> "parse_flight_and_cabin", kind |-> "loose", src |-> src, text |-> RenderLoose(src)] :
          src \in {s \in LooseSources : ~IsStrictForm(s)}}
  \cup {[fn |-> "parse_flight_and_cabin", kind |-> "words",
         src |-> [words |-> w, sep |-> sep, lead |-> lead],
         text |-> lead \o JoinWords(w, sep) \o lead] :
          w \in WordLists, sep \in {<<Space>>, <<Space, Newline>>}, lead \in {<<>>, <<Space>>}}
  \cup {[fn |-> "parse_flight_and_cabin", kind |-> "none", src |-> <<>>, text |-> PyNone]}

\* --- texts parse_duration_to_timedelta is called with, and durations
\* format_timedelta_to_hhmm is called with.
FenZhong == <<"u5206", "u9418">>   \* 分鐘
DurationStyles == {"h_m", "padded", "spaced", "hours", "minutes"}
RenderDuration(h, m, style) ==
  CASE style = "h_m" -> RenderNat(h) \o XiaoShi \o RenderNat(m) \o FenZhong
    [] style = "padded" -> Pad2(h) \o XiaoShi \o Pad2(m) \o FenZhong
    [] style = "spaced" -> RenderNat(h) \o <<Space>> \o XiaoShi \o <<Space>> \o RenderNat(m) \o <<Space>> \o Fen
    [] style = "hours" -> RenderNat(h) \o XiaoShi
    [] style = "minutes" -> RenderNat(m) \o FenZhong
DurationCalls ==
  {[fn |-> "parse_duration_to_timedelta", kind |-> "h_m", h |-> h, m |-> m,
    text |-> RenderDuration(h, m, "h_m")] : h \in 0..99, m \in 0..59}
  \cup {[fn |-> "parse_duration_to_timedelta", kind |-> style, h |-> h, m |-> m,
         text |-> RenderDuration(h, m, style)] :
          h \in {0, 3, 24, 99}, m \in {0, 5, 59}, style \in DurationStyles \ {"h_m"}}
  \cup {[fn |-> "parse_duration_to_timedelta", kind |-> "empty", h |-> 0, m |-> 0, text |-> t] :
          t \in {<<>>, PyNone, <<"B", "7", "8", "7">>}}
FormatCalls ==
  {[fn |-> "format_timedelta_to_hhmm", kind |-> "direct", td |-> td] :
     td \in {PyNone, <<0, 0>>, <<0, 59>>, <<0, 60>>, <<-1, 86340>>, <<-1, 0>>, <<1, 3600>>}}

\* DateTimeParser.parse_date_time(text, year)
CallParseDateTime ==
  /\ call_pc = "called"
  /\ call.fn = "parse_date_time"
  /\ LET dt == parse_date_time(call.text, call.year)
     IN IF dt.ok THEN call_pc' = "returned" /\ result' = dt.dt
        ELSE call_pc' = "raised" /\ result' = <<dt.error>>
  /\ UNCHANGED <<call, price_vars, breakpoint_log, collect_vars, flight_vars, baggage_vars,
                 table_vars>>
  /\ UNCHANGED <<retry_vars, loop_vars, task_vars, legacy_vars>>

\* PriceDataExtractor.parse_int(text)
CallParseInt ==
  /\ call_pc = "called"
  /\ call.fn = "parse_int"
  /\ call_pc' = "returned"
  /\ result' = <<parse_int(call.text)>>
  /\ UNCHANGED <<call, price_vars, breakpoint_log, collect_vars, flight_vars, baggage_vars,
                 table_vars>>
  /\ UNCHANGED <<retry_vars, loop_vars, task_vars, legacy_vars>>

\* FlightDataParser.parse_flight_and_cabin(text)
CallParseFlightAndCabin ==
  /\ call_pc = "called"
  /\ call.fn = "parse_flight_and_cabin"
  /\ call_pc' = "returned"
  /\ result' = parse_flight_and_cabin(call.text)
  /\ UNCHANGED <<call, price_vars, breakpoint_log, collect_vars, flight_vars, baggage_vars,
                 table_vars>>
  /\ UNCHANGED <<retry_vars, loop_vars, task_vars, legacy_vars>>

\* DateTimeParser.parse_duration_to_timedelta(text)
CallParseDuration ==
  /\ call_pc = "called"
  /\ call.fn = "parse_duration_to_timedelta"
  /\ call_pc' = "returned"
  /\ result' = parse_duration_to_timedelta(call.text)
  /\ UNCHANGED <<call, price_vars, breakpoint_log, collect_vars, flight_vars, baggage_vars,
                 table_vars>>
  /\ UNCHANGED <<retry_vars, loop_vars, task_vars, legacy_vars>>

\* Line 620: the duration parsed is handed to format_timedelta_to_hhmm.
CallFormatParsed ==
  /\ call_pc = "returned"
  /\ call.fn = "parse_duration_to_timedelta"
  /\ call' = [fn |-> "format_timedelta_to_hhmm", kind |-> call.kind, h |-> call.h,
              m |-> call.m, td |-> result]
  /\ call_pc' = "called"
  /\ result' = <<>>
  /\ UNCHANGED <<price_vars, breakpoint_log, collect_vars, flight_vars, baggage_vars,
                 table_vars>>
  /\ UNCHANGED <<retry_vars, loop_vars, task_vars, legacy_vars>>

\* DateTimeParser.format_timedelta_to_hhmm(td)
CallFormatTimedelta ==
  /\ call_pc = "called"
  /\ call.fn = "format_timedelta_to_hhmm"
  /\ call_pc' = "returned"
  /\ result' = format_timedelta_to_hhmm(call.td)
  /\ UNCHANGED <<call, price_vars, breakpoint_log, collect_vars, flight_vars, baggage_vars,
                 table_vars>>
  /\ UNCHANGED <<retry_vars, loop_vars, task_vars, legacy_vars>>

\* ========================================================================
\* _extract_flight_and_cabin_info: the readings of the flight-info cell
\* ========================================================================
\* range(3)
MaxAttempts == 3

\* What td.cell_2 can show at one moment: the texts of its <p> elements.  The
\* cell renders asynchronously, so two readings can differ.
Cell2Renderings ==
  {<<>>,
   <<<<" ", " ">>>>,
   <<<<"E", "V", "A", " ", "A", "i", "r">>>>,
   <<<<"E", "V", "A", " ", "A", "i", "r">>, <<" ", "B", "R", " ", "1", "0", "8", " ", "u7D93", "u6FDF", "u8259", "Q", " ">>>>,
   <<<<"B", "R", " ", "1", "0", "8", " ", "u7D93", "u6FDF", "u8259", "Q">>, <<"C", "I", "1", "0", "0">>, <<"E", "V", "A", " ", "A", "i", "r">>>>,
   <<<<"E", "V", "A", " ", "A", "i", "r">>, <<"u7D93", "u6FDF", "u8259", " ", "Q">>>>}

\* p_texts and candidates of one reading (lines 447-448), and the pair line 454
\* returns for the text one reading can leave; computed once per rendering.
ReadingOf ==
  [r \in Cell2Renderings |->
     [p_texts |-> NonEmpty(StripAll(r)),
      candidates |-> FlightCandidates(NonEmpty(StripAll(r)))]] @@ <<>>
ParsedText ==
  [t \in {<<>>} \cup {LastOrEmpty(ReadingOf[r].candidates) : r \in Cell2Renderings} |->
     parse_flight_and_cabin(t)] @@ <<>>

RetryIdle ==
  /\ retry_pc = "idle"
  /\ cell2_found = FALSE
  /\ cell2 = <<>>
  /\ retry_reads = <<>>
  /\ flight_and_cabin_text = <<>>
  /\ retry_result = <<>>

\* Lines 439-443: the row is checked and td.cell_2 is looked up.
RetryBegin ==
  /\ retry_pc = "called"
  /\ IF ~cell2_found
     THEN retry_pc' = "raised" /\ retry_result' = <<"NoSuchElementException">>
     ELSE retry_pc' = "read" /\ UNCHANGED retry_result
  /\ UNCHANGED <<cell2_found, cell2, retry_reads, flight_and_cabin_text>>
  /\ UNCHANGED <<price_vars, breakpoint_log, collect_vars, flight_vars, baggage_vars,
                 pure_vars, table_vars, loop_vars, task_vars,
                 legacy_vars>>

\* Lines 446-451: one pass of the loop up to the break.
RetryRead ==
  /\ retry_pc = "read"
  /\ Len(retry_reads) < MaxAttempts
  /\ retry_reads' = Append(retry_reads, ReadingOf[cell2].p_texts)
  /\ IF ReadingOf[cell2].candidates # <<>>
     THEN /\ flight_and_cabin_text' = LastOrEmpty(ReadingOf[cell2].candidates)
          /\ retry_pc' = "parse"
     ELSE /\ retry_pc' = "sleep"
          /\ UNCHANGED flight_and_cabin_text
  /\ UNCHANGED <<cell2_found, cell2, retry_result>>
  /\ UNCHANGED <<price_vars, breakpoint_log, collect_vars, flight_vars, baggage_vars,
                 pure_vars, table_vars, loop_vars, task_vars,
                 legacy_vars>>

\* Line 452: time.sleep(0.2), during which the cell may render; then the next
\* pass, or the end of the loop after the third.
RetrySleep ==
  /\ retry_pc = "sleep"
  /\ cell2' \in Cell2Renderings
  /\ retry_pc' = IF Len(retry_reads) < MaxAttempts THEN "read" ELSE "parse"
  /\ UNCHANGED <<cell2_found, retry_reads, flight_and_cabin_text, retry_result>>
  /\ UNCHANGED <<price_vars, breakpoint_log, collect_vars, flight_vars, baggage_vars,
                 pure_vars, table_vars, loop_vars, task_vars,
                 legacy_vars>>

\* Line 454: return FlightDataParser.parse_flight_and_cabin(flight_and_cabin_text)
RetryReturn ==
  /\ retry_pc = "parse"
  /\ retry_result' = ParsedText[flight_and_cabin_text]
  /\ retry_pc' = "returned"
  /\ UNCHANGED <<cell2_found, cell2, retry_reads, flight_and_cabin_text>>
  /\ UNCHANGED <<price_vars, breakpoint_log, collect_vars, flight_vars, baggage_vars,
                 pure_vars, table_vars, loop_vars, task_vars,
                 legacy_vars>>

\* ========================================================================
\* collect_all_flight_data: the loops over cards and fare-option combinations
\* ========================================================================
MaxCards == 2
MaxOptions == 2

\* A card of the result page: its MultiSegment groups, the radio buttons the
\* first two have when they are counted (lines 93-105), and how many of them
\* are found when the lists are looked up again inside the loops (lines 108
\* and 119), the page having changed in between or not.
Card(groups, dep, ret, dep_later, ret_later) ==
  [groups |-> groups, dep |-> dep, ret |-> ret, dep_later |-> dep_later,
   ret_later |-> ret_later]
Cards ==
  {Card(1, 0, 0, 0, 0),
   Card(3, 0, 0, 0, 0),
   Card(2, MaxOptions, MaxOptions, MaxOptions, MaxOptions),
   Card(2, 1, MaxOptions, 1, MaxOptions - 1),
   Card(2, MaxOptions, 1, MaxOptions - 1, 1),
   Card(2, 0, 1, 0, 1),
   Card(2, 1, 0, 1, 0)}
RECURSIVE SeqsUpTo(_, _)
SeqsUpTo(S, n) ==
  IF n = 0 THEN {<<>>}
  ELSE SeqsUpTo(S, n - 1) \cup {Append(s, x) : s \in SeqsUpTo(S, n - 1), x \in S}
\* Nothing selected by the program yet.
NoSelection == [dep |-> 0, ret |-> 0]

\* What the tab of flight details of a card shows, and so what
\* extract_and_clean_flight_data returns, while the options dep and ret of the
\* card are the selected ones: the first segment of each direction is the
\* flight of the option.
ShownFlight(card, dep, ret) ==
  DictUpdate(initialize_flight_record,
             (<<Outbound, "flight_no", 1>> :> <<"B", "R", DigitChar(card), DigitChar(dep)>>)
             @@ (<<Inbound, "flight_no", 1>> :> <<"U", "A", DigitChar(card), DigitChar(ret)>>))
\* What extract_and_clean_baggage_data returns for the mapping it is given:
\* the outbound row matches a record with segments only.
ShownBaggage(details) ==
  IF details = EmptyDict THEN EmptyDict
  ELSE (BaggageKey(Outbound, 1) :> (<<"2", "3">> \o GongJin))
\* flight_extracted[0] if flight_extracted else {}
CurrentFlightDetails_Empty(extracted) == EmptyDict
CurrentFlightDetails(extracted) == IF extracted # <<>> THEN extracted[1] ELSE EmptyDict

LoopIdle ==
  /\ loop_pc = "idle"
  /\ flight_cards = <<>>
  /\ card_index = 0
  /\ dep_count = 0
  /\ ret_count = 0
  /\ d_idx = 0
  /\ r_idx = 0
  /\ selected = <<>>
  /\ loop_trace = <<>>

\* One step of the loop, for the combination it belongs to.
Event(step, dep, ret, arg) ==
  [step |-> step, card |-> card_index, dep |-> dep, ret |-> ret, arg |-> arg]

\* Lines 79-105: the next card, its MultiSegment groups and the two counts.
LoopNextCard ==
  /\ loop_pc = "cards"
  /\ card_index < Len(flight_cards)
  /\ card_index' = card_index + 1
  /\ IF flight_cards[card_index + 1].groups # 2
     THEN /\ loop_trace' = Append(loop_trace,
                                  [step |-> "skip_card", card |-> card_index + 1, dep |-> 0,
                                   ret |-> 0, arg |-> EmptyDict])
          /\ UNCHANGED <<loop_pc, dep_count, ret_count, d_idx>>
     ELSE /\ dep_count' = flight_cards[card_index + 1].dep
          /\ ret_count' = flight_cards[card_index + 1].ret
          /\ d_idx' = 0
          /\ loop_pc' = "departures"
          /\ UNCHANGED loop_trace
  /\ UNCHANGED <<flight_cards, r_idx, selected>>
  /\ UNCHANGED <<price_vars, breakpoint_log, collect_vars, flight_vars, baggage_vars,
                 pure_vars, table_vars, retry_vars, task_vars,
                 legacy_vars>>

\* Lines 107-116: the next departure option is looked up again and clicked;
\* the loop ends when the options are through or the list got shorter.
LoopSelectDeparture ==
  /\ loop_pc = "departures"
  /\ IF d_idx >= dep_count
     THEN /\ loop_pc' = "cards"
          /\ UNCHANGED <<d_idx, r_idx, selected, loop_trace>>
     ELSE IF d_idx >= flight_cards[card_index].dep_later
            THEN /\ loop_pc' = "cards"
                 /\ loop_trace' = Append(loop_trace, Event("break", d_idx + 1, 0, EmptyDict))
                 /\ UNCHANGED <<d_idx, r_idx, selected>>
            ELSE /\ d_idx' = d_idx + 1
                 /\ r_idx' = 0
                 /\ selected' = [selected EXCEPT ![card_index].dep = d_idx + 1]
                 /\ loop_trace' = Append(loop_trace,
                                         Event("select_departure", d_idx + 1, 0, EmptyDict))
                 /\ loop_pc' = "returns"
  /\ UNCHANGED <<flight_cards, card_index, dep_count, ret_count>>
  /\ UNCHANGED <<price_vars, breakpoint_log, collect_vars, flight_vars, baggage_vars,
                 pure_vars, table_vars, retry_vars, task_vars,
                 legacy_vars>>

\* Lines 118-128: the next return option is looked up again and clicked.
LoopSelectReturn ==
  /\ loop_pc = "returns"
  /\ IF r_idx >= ret_count
     THEN /\ loop_pc' = "departures"
          /\ UNCHANGED <<r_idx, selected, loop_trace>>
     ELSE IF r_idx >= flight_cards[card_index].ret_later
            THEN /\ loop_pc' = "departures"
                 /\ loop_trace' = Append(loop_trace, Event("break", d_idx, r_idx + 1, EmptyDict))
                 /\ UNCHANGED <<r_idx, selected>>
            ELSE /\ r_idx' = r_idx + 1
                 /\ selected' = [selected EXCEPT ![card_index].ret = r_idx + 1]
                 /\ loop_trace' = Append(loop_trace,
                                         Event("select_return", d_idx, r_idx + 1, EmptyDict))
                 /\ loop_pc' = "flight"
  /\ UNCHANGED <<flight_cards, card_index, dep_count, ret_count, d_idx>>
  /\ UNCHANGED <<price_vars, breakpoint_log, collect_vars, flight_vars, baggage_vars,
                 pure_vars, table_vars, retry_vars, task_vars,
                 legacy_vars>>

\* Lines 130-139: the tab of flight details, the wait for its tables, and
\* extract_and_clean_flight_data on what the card shows now.
LoopExtractFlight ==
  /\ loop_pc = "flight"
  /\ \E raised \in BOOLEAN :
       IF raised
       THEN loop_pc' = "raised" /\ UNCHANGED <<flight_extracted, loop_trace>>
       ELSE /\ flight_extracted' = <<ShownFlight(card_index, selected[card_index].dep,
                                                 selected[card_index].ret)>>
            /\ loop_trace' = Append(loop_trace,
                 Event("flight", d_idx, r_idx,
                       ShownFlight(card_index, selected[card_index].dep,
                                   selected[card_index].ret)))
            /\ loop_pc' = "baggage"
  /\ UNCHANGED <<flight_cards, card_index, dep_count, ret_count, d_idx, r_idx, selected>>
  /\ UNCHANGED <<card_baggage_info, extracted_rows, clock, collect_pc>>
  /\ UNCHANGED <<price_vars, breakpoint_log, flight_vars, baggage_vars, pure_vars,
                 table_vars, retry_vars, task_vars, legacy_vars>>

\* Lines 141-152: the baggage tab, the wait for it, and
\* extract_and_clean_baggage_data with the record just extracted.
LoopExtractBaggage ==
  /\ loop_pc = "baggage"
  /\ \E raised \in BOOLEAN :
       IF raised
       THEN loop_pc' = "raised" /\ UNCHANGED <<card_baggage_info, loop_trace>>
       ELSE /\ card_baggage_info' = ShownBaggage(CurrentFlightDetails(flight_extracted))
            /\ loop_trace' = Append(loop_trace,
                 Event("baggage", d_idx, r_idx, CurrentFlightDetails(flight_extracted)))
            /\ loop_pc' = "price"
  /\ UNCHANGED <<flight_cards, card_index, dep_count, ret_count, d_idx, r_idx, selected>>
  /\ UNCHANGED <<flight_extracted, extracted_rows, clock, collect_pc>>
  /\ UNCHANGED <<price_vars, breakpoint_log, flight_vars, baggage_vars, pure_vars,
                 table_vars, retry_vars, task_vars, legacy_vars>>

\* Lines 154-161: the price is clicked and extract_and_clean_price_data reads
\* the dialog.
LoopReadPrice ==
  /\ loop_pc = "price"
  /\ \E raised \in BOOLEAN :
       IF raised
       THEN loop_pc' = "raised" /\ UNCHANGED <<price_extracted, loop_trace>>
       ELSE /\ price_extracted' = <<PriceRecordB>>
            /\ loop_trace' = Append(loop_trace, Event("price", d_idx, r_idx, EmptyDict))
            /\ loop_pc' = "overlay"
  /\ UNCHANGED <<flight_cards, card_index, dep_count, ret_count, d_idx, r_idx, selected>>
  /\ UNCHANGED <<dialog_src, modal_text, price_pc, price_path, price_record, formula_line,
                 fallback_ran>>
  /\ UNCHANGED <<breakpoint_log, collect_vars, flight_vars, baggage_vars, pure_vars,
                 table_vars, retry_vars, task_vars, legacy_vars>>

\* Lines 163-165: the overlay is looked up and clicked.
LoopCloseOverlay ==
  /\ loop_pc = "overlay"
  /\ \E overlay_found \in BOOLEAN :
       IF overlay_found
       THEN /\ loop_trace' = Append(loop_trace, Event("overlay", d_idx, r_idx, EmptyDict))
            /\ loop_pc' = "append"
       ELSE loop_pc' = "raised" /\ UNCHANGED loop_trace
  /\ UNCHANGED <<flight_cards, card_index, dep_count, ret_count, d_idx, r_idx, selected>>
  /\ UNCHANGED <<price_vars, breakpoint_log, collect_vars, flight_vars, baggage_vars,
                 pure_vars, table_vars, retry_vars, task_vars,
                 legacy_vars>>

\* Lines 167-172: the time stamp, the merged row, and the next return option.
LoopAppendRow ==
  /\ loop_pc = "append"
  /\ extracted_rows' = Append(extracted_rows,
       MergedRow(flight_extracted[1], price_extracted[1], card_baggage_info, clock))
  /\ clock' = clock + 1
  /\ loop_trace' = Append(loop_trace, Event("append", d_idx, r_idx, EmptyDict))
  /\ loop_pc' = "returns"
  /\ UNCHANGED <<flight_cards, card_index, dep_count, ret_count, d_idx, r_idx, selected>>
  /\ UNCHANGED <<flight_extracted, card_baggage_info, collect_pc>>
  /\ UNCHANGED <<price_vars, breakpoint_log, flight_vars, baggage_vars, pure_vars,
                 table_vars, retry_vars, task_vars, legacy_vars>>

\* Line 174: return extracted_rows
LoopReturn ==
  /\ loop_pc = "cards"
  /\ card_index = Len(flight_cards)
  /\ loop_pc' = "returned"
  /\ UNCHANGED <<flight_cards, card_index, dep_count, ret_count, d_idx, r_idx, selected,
                 loop_trace>>
  /\ UNCHANGED <<price_vars, breakpoint_log, collect_vars, flight_vars, baggage_vars,
                 pure_vars, table_vars, retry_vars, task_vars,
                 legacy_vars>>

\* ========================================================================
\* WebNavigator.login_with_retry and ScraperTaskController.run_scraping_task
\* ========================================================================
\* max_retries: int = 10
DefaultMaxRetries == 10
MaxRetriesTried == 4

TaskIdle ==
  /\ task_pc = "idle"
  /\ task_args = <<>>
  /\ driver = "none"
  /\ quit_calls = 0
  /\ max_retries = 0
  /\ retries = 0
  /\ login_attempts = <<>>
  /\ login_declared = "none"
  /\ driver_ops = <<>>
  /\ task_step = 0
  /\ task_exception = "none"
  /\ task_outcome = "none"

\* What login_to_website can end with: the site rejects the login with an
\* alert, accepts it, or a step of the login raises.
AttemptOutcomes == {"alert", "accepted", "raised"}
\* EC.alert_is_present()(driver) after the last call of login_to_website
AlertPresent(attempts) == attempts # <<>> /\ attempts[Len(attempts)] = "alert"
\* A use of the driver: what is done and the state the driver is in.
DriverOp(op) == [op |-> op, driver |-> driver]

\* Lines 199-204: the check of max_retries and the first login_to_website.
LoginBegin ==
  /\ task_pc = "login"
  /\ IF max_retries <= 0
     THEN /\ task_pc' = "login_raised"
          /\ task_exception' = "ValueError"
          /\ UNCHANGED <<retries, login_attempts, driver_ops>>
     ELSE /\ retries' = 0
          /\ driver_ops' = Append(driver_ops, DriverOp("login"))
          /\ \E outcome \in AttemptOutcomes :
               /\ login_attempts' = Append(login_attempts, outcome)
               /\ IF outcome = "raised"
                  THEN task_pc' = "login_raised" /\ task_exception' = "Exception"
                  ELSE task_pc' = "login_loop" /\ UNCHANGED task_exception
  /\ UNCHANGED <<task_args, driver, quit_calls, max_retries, login_declared, task_step,
                 task_outcome>>
  /\ UNCHANGED <<price_vars, breakpoint_log, collect_vars, flight_vars, baggage_vars,
                 pure_vars, table_vars, retry_vars, loop_vars,
                 legacy_vars>>

\* Lines 205-213: one pass of the while loop: the alert is accepted, retries
\* goes up and login_to_website is called again.
LoginRetry ==
  /\ task_pc = "login_loop"
  /\ retries < max_retries /\ AlertPresent(login_attempts)
  /\ retries' = retries + 1
  /\ driver_ops' = Append(driver_ops, DriverOp("login"))
  /\ \E outcome \in AttemptOutcomes :
       /\ login_attempts' = Append(login_attempts, outcome)
       /\ IF outcome = "raised"
          THEN task_pc' = "login_raised" /\ task_exception' = "Exception"
          ELSE UNCHANGED <<task_pc, task_exception>>
  /\ UNCHANGED <<task_args, driver, quit_calls, max_retries, login_declared, task_step,
                 task_outcome>>
  /\ UNCHANGED <<price_vars, breakpoint_log, collect_vars, flight_vars, baggage_vars,
                 pure_vars, table_vars, retry_vars, loop_vars,
                 legacy_vars>>

\* if retries == max_retries
LoginFailed(n, limit, attempts) == n = limit

\* Lines 205 and 215-219: the loop is left; failure is declared and the
\* driver is quit, or success is declared.
LoginFinish ==
  /\ task_pc = "login_loop"
  /\ ~(retries < max_retries /\ AlertPresent(login_attempts))
  /\ IF LoginFailed(retries, max_retries, login_attempts)
     THEN /\ login_declared' = "failure"
          /\ driver' = "quit"
          /\ quit_calls' = quit_calls + 1
     ELSE /\ login_declared' = "success"
          /\ UNCHANGED <<driver, quit_calls>>
  /\ task_pc' = "login_returned"
  /\ UNCHANGED <<task_args, max_retries, retries, login_attempts, driver_ops, task_step,
                 task_exception, task_outcome>>
  /\ UNCHANGED <<price_vars, breakpoint_log, collect_vars, flight_vars, baggage_vars,
                 pure_vars, table_vars, retry_vars, loop_vars,
                 legacy_vars>>

\* Lines 310-317: the checks of the four arguments.
TaskValidate ==
  /\ task_pc = "called"
  /\ IF \E a \in DOMAIN task_args : task_args[a] = <<>>
     THEN task_pc' = "raised" /\ task_outcome' = "ValueError"
     ELSE task_pc' = "create" /\ UNCHANGED task_outcome
  /\ UNCHANGED <<task_args, driver, quit_calls, max_retries, retries, login_attempts,
                 login_declared, driver_ops, task_step, task_exception>>
  /\ UNCHANGED <<price_vars, breakpoint_log, collect_vars, flight_vars, baggage_vars,
                 pure_vars, table_vars, retry_vars, loop_vars,
                 legacy_vars>>

\* Lines 321-327: the driver is created and login_with_retry is called with
\* the default max_retries.
TaskCreateDriver ==
  /\ task_pc = "create"
  /\ \E created \in BOOLEAN :
       IF created
       THEN /\ driver' = "open"
            /\ max_retries' = DefaultMaxRetries
            /\ task_pc' = "login"
            /\ UNCHANGED task_exception
       ELSE /\ task_exception' = "RuntimeError"
            /\ task_pc' = "except"
            /\ UNCHANGED <<driver, max_retries>>
  /\ UNCHANGED <<task_args, quit_calls, retries, login_attempts, login_declared, driver_ops,
                 task_step, task_outcome>>
  /\ UNCHANGED <<price_vars, breakpoint_log, collect_vars, flight_vars, baggage_vars,
                 pure_vars, table_vars, retry_vars, loop_vars,
                 legacy_vars>>

\* login_with_retry raised: on to the except clause.
TaskLoginRaised ==
  /\ task_pc = "login_raised"
  /\ task_args # <<>>
  /\ task_pc' = "except"
  /\ UNCHANGED <<task_args, driver, quit_calls, max_retries, retries, login_attempts,
                 login_declared, driver_ops, task_step, task_exception, task_outcome>>
  /\ UNCHANGED <<price_vars, breakpoint_log, collect_vars, flight_vars, baggage_vars,
                 pure_vars, table_vars, retry_vars, loop_vars,
                 legacy_vars>>

\* The calls that follow login_with_retry, each using the driver:
\* navigate_to_flight_page (330-335), the wait for tab01 (338-340),
\* scroll_to_bottom (341), expand_all_options (344-345),
\* collect_all_flight_data (351-352).
PageOperations == <<"navigate", "wait", "scroll", "expand", "collect">>

\* Lines 329-352: the next of these calls.  On a driver that was quit the
\* command has no session to go to and raises.
TaskPageOperation ==
  /\ \/ task_pc = "login_returned" /\ task_args # <<>>
     \/ task_pc = "page"
  /\ task_step < Len(PageOperations)
  /\ task_step' = task_step + 1
  /\ driver_ops' = Append(driver_ops, DriverOp(PageOperations[task_step + 1]))
  /\ \E raised \in BOOLEAN :
       IF raised \/ driver # "open"
       THEN task_pc' = "except" /\ task_exception' = "Exception"
       ELSE task_pc' = "page" /\ UNCHANGED task_exception
  /\ UNCHANGED <<task_args, driver, quit_calls, max_retries, retries, login_attempts,
                 login_declared, task_outcome>>
  /\ UNCHANGED <<price_vars, breakpoint_log, collect_vars, flight_vars, baggage_vars,
                 pure_vars, table_vars, retry_vars, loop_vars,
                 legacy_vars>>

\* Lines 355-358: build_dataframe and the return statement.
TaskBuild ==
  /\ task_pc = "page"
  /\ task_step = Len(PageOperations)
  /\ \E raised \in BOOLEAN :
       IF raised
       THEN task_pc' = "except" /\ task_exception' = "ValueError"
       ELSE task_pc' = "finally" /\ UNCHANGED task_exception
  /\ UNCHANGED <<task_args, driver, quit_calls, max_retries, retries, login_attempts,
                 login_declared, driver_ops, task_step, task_outcome>>
  /\ UNCHANGED <<price_vars, breakpoint_log, collect_vars, flight_vars, baggage_vars,
                 pure_vars, table_vars, retry_vars, loop_vars,
                 legacy_vars>>

\* Lines 360-361: except Exception as e: raise RuntimeError(...)
TaskExcept ==
  /\ task_pc = "except"
  /\ task_exception' = "RuntimeError"
  /\ task_pc' = "finally"
  /\ UNCHANGED <<task_args, driver, quit_calls, max_retries, retries, login_attempts,
                 login_declared, driver_ops, task_step, task_outcome>>
  /\ UNCHANGED <<price_vars, breakpoint_log, collect_vars, flight_vars, baggage_vars,
                 pure_vars, table_vars, retry_vars, loop_vars,
                 legacy_vars>>

\* if self.driver: self.driver.quit()
QuitInFinally_Never(d) == FALSE
QuitInFinally(d) == d # "none"

\* Lines 362-364: the finally clause, and the call is left.
TaskFinally ==
  /\ task_pc = "finally"
  /\ IF QuitInFinally(driver)
     THEN driver' = "quit" /\ quit_calls' = quit_calls + 1
     ELSE UNCHANGED <<driver, quit_calls>>
  /\ IF task_exception = "none"
     THEN task_pc' = "returned" /\ task_outcome' = "returned"
     ELSE task_pc' = "raised" /\ task_outcome' = task_exception
  /\ UNCHANGED <<task_args, max_retries, retries, login_attempts, login_declared, driver_ops,
                 task_step, task_exception>>
  /\ UNCHANGED <<price_vars, breakpoint_log, collect_vars, flight_vars, baggage_vars,
                 pure_vars, table_vars, retry_vars, loop_vars,
                 legacy_vars>>

\* ========================================================================
\* extract_and_clean_flight_data of colatour_fetch_data.py (the script the
\* classes of data_cleaner.py were taken from)
\* ========================================================================
\* parse_date_time of colatour_fetch_data.py: any exception of strptime is
\* raised again as ValueError.
LegacyReraised(parsed) == IF parsed.ok THEN parsed ELSE Raised("ValueError")
legacy_parse_date_time(text, year) ==
  IF text = PyNone THEN Raised("ValueError")
  ELSE LegacyReraised(strptime(RenderNat(year) \o <<"/">> \o Strip(ReSubEmpty(text, ReParenthesized))))

\* Lines 1062-1071: cell_2 (parse_flight_and_cabin, extract_iata,
\* parse_duration_to_timedelta and the two format functions of the script
\* have the text of the methods of data_cleaner.py)
legacy_flight_and_cabin(row) ==
  IF "cell_2" \notin row.cells THEN Raised("NoSuchElementException")
  ELSE [ok |-> TRUE,
        pair |-> parse_flight_and_cabin(
                   LastOrEmpty(FlightCandidates(NonEmpty(StripAll(row.cell_2)))))]
\* Lines 1086-1087 and 1101-1102: if time_line: parse_date_time(...)
LegacyParsed(airport, parsed) ==
  IF ~parsed.ok THEN parsed
  ELSE [ok |-> TRUE, airport |-> airport, dt |-> parsed.dt]
LegacyTimeLine(airport, time_line, assumed_year) ==
  IF time_line = PyNone \/ time_line = <<>>
  THEN [ok |-> TRUE, airport |-> airport, dt |-> PyNone]
  ELSE LegacyParsed(airport, legacy_parse_date_time(time_line, assumed_year))
\* Lines 1074-1087 (cell_3) and 1090-1102 (cell_5)
legacy_airport_and_time(row, cell_class, assumed_year) ==
  IF cell_class \notin row.cells THEN Raised("NoSuchElementException")
  ELSE LegacyTimeLine(IF StripAll(row[cell_class]) = <<>> THEN <<>>
                      ELSE extract_iata(StripAll(row[cell_class])[1]),
                      FirstMatching(StripAll(row[cell_class]), ReTimeLine, PyNone),
                      assumed_year)
\* Lines 1109-1115: the duration line and the other texts of cell_6
LegacyDurationLine(cell6_ps, dur_line) ==
  IF cell6_ps = <<>> THEN [ok |-> TRUE, equipment |-> <<>>, duration |-> timedelta(0, 0)]
  ELSE IF dur_line # <<>>
  THEN [ok |-> TRUE,
        equipment |-> FirstOrEmpty(SelectSeq(cell6_ps, LAMBDA t : t # dur_line)),
        duration |-> parse_duration_to_timedelta(dur_line)]
  ELSE [ok |-> TRUE, equipment |-> cell6_ps[1], duration |-> timedelta(0, 0)]
\* Lines 1105-1115: cell_6
legacy_equipment_and_duration(row) ==
  IF "cell_6" \notin row.cells THEN Raised("NoSuchElementException")
  ELSE LegacyDurationLine(NonEmpty(StripAll(row.cell_6)),
                          FirstMatching(NonEmpty(StripAll(row.cell_6)), ReDurationLine, <<>>))
\* Lines 1061-1126: the values of a row, in the order the cells are read
LegacySegmentOf(flight, dep, arr, equipment) ==
  IF ~flight.ok THEN flight
  ELSE IF ~dep.ok THEN dep
  ELSE IF ~arr.ok THEN arr
  ELSE IF ~equipment.ok THEN equipment
  ELSE [ok |-> TRUE,
        data |-> [flight_no |-> flight.pair[1], cabin_and_code |-> flight.pair[2],
                  dep_airport |-> dep.airport, arr_airport |-> arr.airport,
                  dep_time |-> format_datetime_to_string(dep.dt),
                  arr_time |-> format_datetime_to_string(arr.dt),
                  equipment |-> equipment.equipment,
                  duration |-> format_timedelta_to_hhmm(equipment.duration)]]
legacy_segment(row, assumed_year) ==
  LegacySegmentOf(legacy_flight_and_cabin(row),
                  legacy_airport_and_time(row, "cell_3", assumed_year),
                  legacy_airport_and_time(row, "cell_5", assumed_year),
                  legacy_equipment_and_duration(row))
\* The values of every row of the catalogue in each year.
LegacySegmentData ==
  [r \in 1..Len(SegmentRows) |->
     [year \in AssumedYears |-> legacy_segment(SegmentRows[r], year)] @@ <<>>] @@ <<>>

\* Lines 1016-1027: the record with every key empty
legacy_initial_record == [key \in Directions \X SegmentFields \X (1..3) |-> <<>>]
\* Lines 1035-1041: the direction of a block
legacy_direction_of(outer, idx) ==
  LET outer_class == IF outer.class = PyNone THEN <<>> ELSE outer.class
      has_return_title ==
        \E i \in 1..Len(outer.titles) :
          /\ \/ Contains(outer.titles[i].class, DetailTitle)
             \/ Contains(outer.titles[i].class, DesktopDetailTitle)
          /\ Contains(outer.titles[i].text, HuiCheng)
  IN IF has_return_title \/ Contains(outer_class, ReturnLine) THEN Inbound
     ELSE IF idx = 1 THEN Inbound ELSE Outbound
\* Lines 1045-1056: the rows of the precise XPath, or of the looser one
legacy_rows_of(strict_rows, loose_rows) ==
  IF strict_rows # 0 THEN [n |-> strict_rows, via |-> "strict"]
  ELSE [n |-> loose_rows, via |-> "loose"]
\* idx at the top of the loop body if enumerate left the variable as it is.
EnumeratedIdx_Kept(position, idx) == idx
\* Line 1033: for idx, outer in enumerate(outer_tables) binds idx to the
\* position of the block, whatever line 1117 had left in it.
EnumeratedIdx(position, idx) == position

LegacyIdle ==
  /\ legacy_pc = "idle"
  /\ legacy_record = EmptyDict
  /\ legacy_segment_index = [d \in Directions |-> 1]
  /\ legacy_n_tables = 0
  /\ legacy_position = 0
  /\ legacy_idx = 0
  /\ legacy_direction = Outbound
  /\ legacy_assumed_year = 0
  /\ legacy_rows = [n |-> 0, via |-> "loose"]
  /\ legacy_row_idx = 0
  /\ legacy_written = <<>>
  /\ legacy_results = <<>>

\* The script is run on the card FlightDataExtractor is run on: what it finds
\* at a place of the card is what the extractor has found there, if it has
\* been there.
CardTableCounts == IF flight_pc = "raised" THEN 0..MaxBlocks ELSE {n_tables}
CardBlockAt(position) ==
  IF flight_pc = "rows" /\ table_idx = position
  THEN {<<outer_table, IF rows.via = "strict" THEN rows.n ELSE 0, rows.n>>}
  ELSE {<<tbl, strict_rows, loose_rows>> \in OuterTables \X (0..MaxRows) \X (0..MaxRows) :
          strict_rows <= loose_rows /\ (strict_rows # 0 => loose_rows = strict_rows)}
CardRowAt(via, position, row) ==
  IF /\ table_idx = position
     /\ \/ flight_pc = "rows" /\ row_idx = row + 1 /\ flight_trace.last = "written"
        \/ /\ flight_pc = "raised" /\ row_idx = row
           /\ flight_trace.last \in {"extract_raised", "write_raised"}
  THEN {flight_trace.row}
  ELSE RowsAt(via, position, row)

\* Lines 1012-1032: the years, the empty record and the blocks of the card.
LegacyBegin ==
  /\ legacy_pc = "start"
  /\ IF IntOk(SplitHead(start_date, "/")) /\ IntOk(SplitHead(return_date, "/"))
     THEN /\ legacy_record' = legacy_initial_record
          /\ legacy_segment_index' = [d \in Directions |-> 1]
          /\ \E n \in CardTableCounts : legacy_n_tables' = n
          /\ legacy_position' = 0
          /\ legacy_pc' = "tables"
     ELSE /\ legacy_pc' = "raised"
          /\ UNCHANGED <<legacy_record, legacy_segment_index, legacy_n_tables, legacy_position>>
  /\ UNCHANGED <<legacy_idx, legacy_direction, legacy_assumed_year, legacy_rows,
                 legacy_row_idx, legacy_written, legacy_results>>
  /\ UNCHANGED <<price_vars, breakpoint_log, collect_vars, flight_vars, baggage_vars,
                 pure_vars, table_vars, retry_vars, loop_vars,
                 task_vars>>

\* Lines 1033-1056: the next block, its direction, its year and its rows.
LegacyEnterBlock ==
  /\ legacy_pc = "tables"
  /\ legacy_position < legacy_n_tables
  /\ legacy_idx' = EnumeratedIdx(legacy_position, legacy_idx)
  /\ \E block \in CardBlockAt(legacy_position) :
       /\ legacy_direction' = legacy_direction_of(block[1], legacy_idx')
       /\ legacy_rows' = legacy_rows_of(block[2], block[3])
  /\ legacy_assumed_year' =
       IF legacy_direction' = Inbound THEN IntVal(SplitHead(return_date, "/"))
       ELSE IntVal(SplitHead(start_date, "/"))
  /\ legacy_row_idx' = 0
  /\ legacy_pc' = "rows"
  /\ UNCHANGED <<legacy_record, legacy_segment_index, legacy_n_tables, legacy_position,
                 legacy_written, legacy_results>>
  /\ UNCHANGED <<price_vars, breakpoint_log, collect_vars, flight_vars, baggage_vars,
                 pure_vars, table_vars, retry_vars, loop_vars,
                 task_vars>>

\* Lines 1058-1059: if segment_index[direction] > 3: continue
LegacySkipRow ==
  /\ legacy_pc = "rows"
  /\ legacy_row_idx < legacy_rows.n
  /\ legacy_segment_index[legacy_direction] > 3
  /\ legacy_row_idx' = legacy_row_idx + 1
  /\ UNCHANGED <<legacy_pc, legacy_record, legacy_segment_index, legacy_n_tables,
                 legacy_position, legacy_idx, legacy_direction, legacy_assumed_year,
                 legacy_rows, legacy_written, legacy_results>>
  /\ UNCHANGED <<price_vars, breakpoint_log, collect_vars, flight_vars, baggage_vars,
                 pure_vars, table_vars, retry_vars, loop_vars,
                 task_vars>>

\* Lines 1061-1128: the cells of the row are read, idx becomes the slot number
\* of the direction, the eight keys of the slot are written and the slot
\* number of the direction goes up.
LegacyExtractRow ==
  /\ legacy_pc = "rows"
  /\ legacy_row_idx < legacy_rows.n
  /\ ~(legacy_segment_index[legacy_direction] > 3)
  /\ \E r \in CardRowAt(legacy_rows.via, legacy_position, legacy_row_idx) :
       LET segment == LegacySegmentData[r][legacy_assumed_year]
           slot == legacy_segment_index[legacy_direction]
       IN IF ~segment.ok
          THEN /\ legacy_pc' = "raised"
               /\ UNCHANGED <<legacy_record, legacy_segment_index, legacy_idx, legacy_row_idx,
                              legacy_written>>
          ELSE /\ legacy_idx' = slot
               /\ legacy_record' =
                    DictUpdate(legacy_record,
                      [key \in {legacy_direction} \X SegmentFields \X {slot} |->
                         segment.data[key[2]]])
               /\ legacy_segment_index' = [legacy_segment_index EXCEPT ![legacy_direction] = @ + 1]
               /\ legacy_written' = Append(legacy_written, <<legacy_direction, slot>>)
               /\ legacy_row_idx' = legacy_row_idx + 1
               /\ UNCHANGED legacy_pc
  /\ UNCHANGED <<legacy_n_tables, legacy_position, legacy_direction, legacy_assumed_year,
                 legacy_rows, legacy_results>>
  /\ UNCHANGED <<price_vars, breakpoint_log, collect_vars, flight_vars, baggage_vars,
                 pure_vars, table_vars, retry_vars, loop_vars,
                 task_vars>>

\* The rows of the block are done: the loop of line 1033 goes on.
LegacyBlockDone ==
  /\ legacy_pc = "rows"
  /\ legacy_row_idx = legacy_rows.n
  /\ legacy_position' = legacy_position + 1
  /\ legacy_pc' = "tables"
  /\ UNCHANGED <<legacy_record, legacy_segment_index, legacy_n_tables, legacy_idx,
                 legacy_direction, legacy_assumed_year, legacy_rows, legacy_row_idx,
                 legacy_written, legacy_results>>
  /\ UNCHANGED <<price_vars, breakpoint_log, collect_vars, flight_vars, baggage_vars,
                 pure_vars, table_vars, retry_vars, loop_vars,
                 task_vars>>

\* Lines 1130-1131: results.append(record); return results
LegacyReturn ==
  /\ legacy_pc = "tables"
  /\ legacy_position = legacy_n_tables
  /\ legacy_results' = <<legacy_record>>
  /\ legacy_pc' = "returned"
  /\ UNCHANGED <<legacy_record, legacy_segment_index, legacy_n_tables, legacy_position,
                 legacy_idx, legacy_direction, legacy_assumed_year, legacy_rows,
                 legacy_row_idx, legacy_written>>
  /\ UNCHANGED <<price_vars, breakpoint_log, collect_vars, flight_vars, baggage_vars,
                 pure_vars, table_vars, retry_vars, loop_vars,
                 task_vars>>

\* Nothing of the steps below is in progress.
OthersIdle(but) ==
  /\ "retry" \in but \/ RetryIdle
  /\ "loop" \in but \/ LoopIdle
  /\ "task" \in but \/ TaskIdle
  /\ "legacy" \in but \/ LegacyIdle

\* ------------------------------------------------------------------------
\* Specification of the fare dialog of one combination: the flight record and
\* the baggage mapping are already extracted, the price is clicked.
\* ------------------------------------------------------------------------
TableIdle == table_pc = "idle" /\ final_df = [columns |-> <<>>, rows |-> <<>>]
InitPrice ==
  /\ OthersIdle({})
  /\ PureIdle
  /\ TableIdle
  /\ dialog_src \in DialogSources
  /\ modal_text = RenderDialog(dialog_src)
  /\ price_pc = "start"
  /\ price_path = "none"
  /\ price_record = PriceRecordDefault
  /\ formula_line = <<>>
  /\ fallback_ran = {}
  /\ price_extracted = <<>>
  /\ breakpoint_log = <<>>
  /\ collect_pc = "price"
  /\ flight_extracted = <<initialize_flight_record>>
  /\ card_baggage_info = EmptyDict
  /\ extracted_rows = <<>>
  /\ clock = 0
  /\ FlightIdle
  /\ BaggageIdle
NextPrice ==
  \/ PriceOpenDialog
  \/ PriceClassify
  \/ PriceNoFormula
  \/ PriceExtractFields
  \/ PriceFallback
  \/ CollectAppendRow
  \/ CollectPriceRaised
SpecPrice == InitPrice /\ [][NextPrice]_vars

\* ------------------------------------------------------------------------
\* Specification of the flight-record assembly of one combination.
\* ------------------------------------------------------------------------
InitFlight ==
  /\ OthersIdle({})
  /\ PureIdle
  /\ TableIdle
  /\ PriceIdle
  /\ BaggageIdle
  /\ breakpoint_log = <<>>
  /\ collect_pc = "flight"
  /\ flight_extracted = <<>>
  /\ card_baggage_info = EmptyDict
  /\ extracted_rows = <<>>
  /\ clock = 0
  /\ flight_pc = "start"
  /\ \E dates \in DatePairs : start_date = dates[1] /\ return_date = dates[2]
  /\ assumed_years = <<0, 0>>
  /\ flight_record = EmptyDict
  /\ segment_index = [d \in Directions |-> 1]
  /\ n_tables = 0
  /\ table_idx = 0
  /\ outer_table = NoTable
  /\ direction = Outbound
  /\ rows = [n |-> 0, via |-> "loose"]
  /\ row_idx = 0
  /\ flight_trace = NoTrace
NextFlight ==
  \/ FlightBegin
  \/ FlightEnterBlock
  \/ FlightSkipRow
  \/ FlightExtractRow
  \/ FlightBlockDone
  \/ FlightReturn
SpecFlight == InitFlight /\ [][NextFlight]_vars

\* ------------------------------------------------------------------------
\* Specification of the baggage reconciliation of one combination: the flight
\* record of the combination is extracted, the baggage tab is open.
\* ------------------------------------------------------------------------
InitBaggage ==
  /\ OthersIdle({})
  /\ PureIdle
  /\ TableIdle
  /\ PriceIdle
  /\ FlightIdle
  /\ breakpoint_log = <<>>
  /\ collect_pc = "baggage"
  /\ \E itinerary \in Itineraries :
       /\ flight_extracted = <<FlightDetailsOf(itinerary)>>
       /\ current_flight_details = FlightDetailsOf(itinerary)
  /\ card_baggage_info = EmptyDict
  /\ extracted_rows = <<>>
  /\ clock = 0
  /\ baggage_pc = "start"
  /\ n_baggage_rows = 0
  /\ baggage_idx = 0
  /\ outbound_baggage_counter = 0
  /\ return_baggage_counter = 0
  /\ baggage_seen = <<>>
  /\ baggage_assigned = <<>>
  /\ printed_warnings = <<>>
NextBaggage ==
  \/ BaggageBegin
  \/ BaggageRow
  \/ BaggageReturn
SpecBaggage == InitBaggage /\ [][NextBaggage]_vars

\* ------------------------------------------------------------------------
\* Specification of the parsing functions: one call of one of them, with a
\* text of the catalogues above.
\* ------------------------------------------------------------------------
CollectIdle ==
  /\ collect_pc = "idle"
  /\ flight_extracted = <<>>
  /\ card_baggage_info = EmptyDict
  /\ extracted_rows = <<>>
  /\ clock = 0
InitParse ==
  /\ OthersIdle({})
  /\ PriceIdle
  /\ FlightIdle
  /\ BaggageIdle
  /\ CollectIdle
  /\ TableIdle
  /\ breakpoint_log = <<>>
  /\ call_pc = "called"
  /\ call \in DateTimeCalls \cup IntCalls \cup FlightCalls \cup DurationCalls \cup FormatCalls
  /\ result = <<>>
NextParse ==
  \/ CallParseDateTime
  \/ CallParseInt
  \/ CallParseFlightAndCabin
  \/ CallParseDuration
  \/ CallFormatParsed
  \/ CallFormatTimedelta
SpecParse == InitParse /\ [][NextParse]_vars

\* ------------------------------------------------------------------------
\* Specification of build_dataframe: one call with a list of merged rows.
\* ------------------------------------------------------------------------
InitTable ==
  /\ OthersIdle({})
  /\ PriceIdle
  /\ FlightIdle
  /\ BaggageIdle
  /\ PureIdle
  /\ breakpoint_log = <<>>
  /\ collect_pc = "idle"
  /\ flight_extracted = <<>>
  /\ card_baggage_info = EmptyDict
  /\ clock = 0
  /\ \/ table_pc = "called" /\ extracted_rows \in TableInputs
     \/ table_pc = "called_with_none" /\ extracted_rows = <<>>
  /\ final_df = [columns |-> <<>>, rows |-> <<>>]
NextTable == BuildDataframe
SpecTable == InitTable /\ [][NextTable]_vars

\* ------------------------------------------------------------------------
\* Specification of _extract_flight_and_cabin_info: one call on a row whose
\* flight-info cell is still rendering.
\* ------------------------------------------------------------------------
InitRetry ==
  /\ OthersIdle({"retry"})
  /\ PriceIdle
  /\ FlightIdle
  /\ BaggageIdle
  /\ CollectIdle
  /\ PureIdle
  /\ TableIdle
  /\ breakpoint_log = <<>>
  /\ retry_pc = "called"
  /\ cell2_found \in BOOLEAN
  /\ cell2 \in (IF cell2_found THEN Cell2Renderings ELSE {<<>>})
  /\ retry_reads = <<>>
  /\ flight_and_cabin_text = <<>>
  /\ retry_result = <<>>
NextRetry ==
  \/ RetryBegin
  \/ RetryRead
  \/ RetrySleep
  \/ RetryReturn
SpecRetry == InitRetry /\ [][NextRetry]_vars
\* The call is not suspended for ever: each step that can be taken is taken.
SpecRetryLive == SpecRetry /\ WF_vars(NextRetry)

\* ------------------------------------------------------------------------
\* Specification of collect_all_flight_data: the loops over the cards of one
\* result page, and over the combinations of each card.
\* ------------------------------------------------------------------------
InitCollect ==
  /\ OthersIdle({"loop"})
  /\ PriceIdle
  /\ FlightIdle
  /\ BaggageIdle
  /\ CollectIdle
  /\ PureIdle
  /\ TableIdle
  /\ breakpoint_log = <<>>
  /\ loop_pc = "cards"
  /\ flight_cards \in SeqsUpTo(Cards, MaxCards)
  /\ card_index = 0
  /\ dep_count = 0
  /\ ret_count = 0
  /\ d_idx = 0
  /\ r_idx = 0
  /\ selected = [c \in 1..Len(flight_cards) |-> NoSelection]
  /\ loop_trace = <<>>
NextCollect ==
  \/ LoopNextCard
  \/ LoopSelectDeparture
  \/ LoopSelectReturn
  \/ LoopExtractFlight
  \/ LoopExtractBaggage
  \/ LoopReadPrice
  \/ LoopCloseOverlay
  \/ LoopAppendRow
  \/ LoopReturn
SpecCollect == InitCollect /\ [][NextCollect]_vars

\* ------------------------------------------------------------------------
\* Specification of login_with_retry: one call on an open driver.
\* ------------------------------------------------------------------------
InitLogin ==
  /\ OthersIdle({"task"})
  /\ PriceIdle
  /\ FlightIdle
  /\ BaggageIdle
  /\ CollectIdle
  /\ PureIdle
  /\ TableIdle
  /\ breakpoint_log = <<>>
  /\ task_pc = "login"
  /\ task_args = <<>>
  /\ driver = "open"
  /\ quit_calls = 0
  /\ max_retries \in (-1..MaxRetriesTried) \cup {DefaultMaxRetries}
  /\ retries = 0
  /\ login_attempts = <<>>
  /\ login_declared = "none"
  /\ driver_ops = <<>>
  /\ task_step = 0
  /\ task_exception = "none"
  /\ task_outcome = "none"
NextLogin ==
  \/ LoginBegin
  \/ LoginRetry
  \/ LoginFinish
SpecLogin == InitLogin /\ [][NextLogin]_vars

\* ------------------------------------------------------------------------
\* Specification of run_scraping_task: one call.
\* ------------------------------------------------------------------------
TaskArguments == {"origin_code", "destination_code", "start_date", "return_date"}
InitTask ==
  /\ OthersIdle({"task"})
  /\ PriceIdle
  /\ FlightIdle
  /\ BaggageIdle
  /\ CollectIdle
  /\ PureIdle
  /\ TableIdle
  /\ breakpoint_log = <<>>
  /\ task_pc = "called"
  /\ task_args \in [TaskArguments -> {<<>>, <<"x">>}]
  /\ driver = "none"
  /\ quit_calls = 0
  /\ max_retries = 0
  /\ retries = 0
  /\ login_attempts = <<>>
  /\ login_declared = "none"
  /\ driver_ops = <<>>
  /\ task_step = 0
  /\ task_exception = "none"
  /\ task_outcome = "none"
NextTask ==
  \/ TaskValidate
  \/ TaskCreateDriver
  \/ LoginBegin
  \/ LoginRetry
  \/ LoginFinish
  \/ TaskLoginRaised
  \/ TaskPageOperation
  \/ TaskBuild
  \/ TaskExcept
  \/ TaskFinally
SpecTask == InitTask /\ [][NextTask]_vars

\* ------------------------------------------------------------------------
\* Specification of the baggage reconciliation with any mapping line 149 of
\* collect_all_flight_data can pass: flight_extracted[0], or {} for an empty
\* flight_extracted.
\* ------------------------------------------------------------------------
InitBaggageAnyDetails ==
  /\ OthersIdle({})
  /\ PureIdle
  /\ TableIdle
  /\ PriceIdle
  /\ FlightIdle
  /\ breakpoint_log = <<>>
  /\ collect_pc = "baggage"
  /\ flight_extracted \in {<<>>} \cup {<<FlightDetailsOf(itinerary)>> : itinerary \in Itineraries}
  /\ current_flight_details = CurrentFlightDetails(flight_extracted)
  /\ card_baggage_info = EmptyDict
  /\ extracted_rows = <<>>
  /\ clock = 0
  /\ baggage_pc = "start"
  /\ n_baggage_rows = 0
  /\ baggage_idx = 0
  /\ outbound_baggage_counter = 0
  /\ return_baggage_counter = 0
  /\ baggage_seen = <<>>
  /\ baggage_assigned = <<>>
  /\ printed_warnings = <<>>
SpecBaggageAnyDetails == InitBaggageAnyDetails /\ [][NextBaggage]_vars

\* ------------------------------------------------------------------------
\* Specification of the two flight-record assemblies run on one card: the
\* extractor of data_cleaner.py takes a step, the script of
\* colatour_fetch_data.py takes its step on what was found there.
\* ------------------------------------------------------------------------
InitBoth ==
  /\ OthersIdle({"legacy"})
  /\ PureIdle
  /\ TableIdle
  /\ PriceIdle
  /\ BaggageIdle
  /\ breakpoint_log = <<>>
  /\ collect_pc = "flight"
  /\ flight_extracted = <<>>
  /\ card_baggage_info = EmptyDict
  /\ extracted_rows = <<>>
  /\ clock = 0
  /\ flight_pc = "start"
  /\ \E dates \in DatePairs : start_date = dates[1] /\ return_date = dates[2]
  /\ assumed_years = <<0, 0>>
  /\ flight_record = EmptyDict
  /\ segment_index = [d \in Directions |-> 1]
  /\ n_tables = 0
  /\ table_idx = 0
  /\ outer_table = NoTable
  /\ direction = Outbound
  /\ rows = [n |-> 0, via |-> "loose"]
  /\ row_idx = 0
  /\ flight_trace = NoTrace
  /\ legacy_pc = "start"
  /\ legacy_record = EmptyDict
  /\ legacy_segment_index = [d \in Directions |-> 1]
  /\ legacy_n_tables = 0
  /\ legacy_position = 0
  /\ legacy_idx = 0
  /\ legacy_direction = Outbound
  /\ legacy_assumed_year = 0
  /\ legacy_rows = [n |-> 0, via |-> "loose"]
  /\ legacy_row_idx = 0
  /\ legacy_written = <<>>
  /\ legacy_results = <<>>
\* The script is where the extractor is.
LegacyCaughtUp ==
  <<legacy_pc, legacy_position, legacy_row_idx>> = <<flight_pc, table_idx, row_idx>>
ExtractorStep == LegacyCaughtUp /\ NextFlight
NextLegacy ==
  \/ LegacyBegin
  \/ LegacyEnterBlock
  \/ LegacySkipRow
  \/ LegacyExtractRow
  \/ LegacyBlockDone
  \/ LegacyReturn
ScriptStep == ~LegacyCaughtUp /\ NextLegacy
NextBoth ==
  \/ ExtractorStep
  \/ ScriptStep
SpecBoth == InitBoth /\ [][NextBoth]_vars

\* ------------------------------------------------------------------------
\* Properties of the fare-formula decoder (SpecPrice)
\* ------------------------------------------------------------------------
DialogRead == price_path = "read"
PastClassification == price_pc \in {"fields", "fallback", "returned", "raised"}
\* The expression of the dialog matches neither shape pattern.
MatchesNeitherShape ==
  /\ DialogRead
  /\ formula_line # <<>>
  /\ ~ReMatch(formula_line, type1_pattern).ok
  /\ ~ReMatch(formula_line, type2_pattern).ok
PriceBreakpointHit == \E i \in 1..Len(breakpoint_log) : breakpoint_log[i][1] = "price"
\* The operands the dialog's expression was written from.
SrcProfile == Profiles[dialog_src.profile]
WrittenAsShape(n) == dialog_src.formula /\ dialog_src.mutation = "none" /\ dialog_src.shape = n

\* C1: for every non-empty expression that matches neither the Shape 1 nor the
\* Shape 2 pattern, the formula type is set to -1 and breakpoint() is called for
\* it; a returned record never carries type 1 or 2 for such an expression.
C1_UnrecognizedShapeFlagged ==
  (PastClassification /\ (MatchesNeitherShape \/ (DialogRead /\ dialog_src.formula /\ dialog_src.mutation # "none")))
    => /\ price_record.FormulaType = -1
       /\ PriceBreakpointHit
       /\ price_pc = "returned" => price_extracted[1].FormulaType \notin {1, 2}
C1_Witness ==
  /\ price_pc = "returned"
  /\ MatchesNeitherShape
  /\ dialog_src.mutation = "noKP"
  /\ price_extracted[1].FormulaType = -1
  /\ breakpoint_log = <<<<"price", 0, "resume">>>>

\* The record the dialog gives when no field is taken from the expression.
RecordWithoutFormula ==
  FallbackTotal(FallbackTax(ParseGdsType(PriceRecordDefault, modal_text), modal_text), modal_text)
FilledFromExpression(rec) == rec # RecordWithoutFormula
\* C2: once the shape is unrecognized, extract_and_clean_price_data does not
\* return normally with a record whose fields were filled from the unrecognized
\* expression, and no merged row built from such a record is appended.
C2_UnrecognizedNeverFilled ==
  MatchesNeitherShape =>
    /\ price_pc = "returned" => ~FilledFromExpression(price_extracted[1])
    /\ \A i \in 1..Len(extracted_rows) : ~FilledFromExpression(extracted_rows[i].price)

\* C4 as stated: for every Shape 1 expression the returned record has type 1 and
\* the basis, base fare, KP code, discount, factors, tax, fixed amount and total
\* of the expression.
C4_Shape1FieldsAsStated ==
  (price_pc = "returned" /\ DialogRead /\ WrittenAsShape(1)) =>
    price_extracted[1] =
      [GDSType |-> price_extracted[1].GDSType, FormulaType |-> 1,
       FareBasis |-> dialog_src.basis, BaseFare |-> SrcProfile.b,
       DiscountPct |-> SrcProfile.n, Discount |-> SrcProfile.d,
       PriceFactor |-> FactorValue(SrcProfile.f1), Tax |-> SrcProfile.t,
       TaxFactor |-> FactorValue(SrcProfile.f2), Fixed |-> SrcProfile.x, Total |-> SrcProfile.T]
\* What the fallback makes of a value v of the expression, given the label.
AfterFallback(v, label) ==
  IF v # 0 THEN v ELSE IF label \in dialog_src.labels THEN DialogLabels[label] ELSE 0
\* C4 amended: as stated, except that a tax (total) of 0 in the expression is
\* replaced by the number beside a standalone tax (total) label of the dialog,
\* when there is one; the formula step itself leaves t and T in the record.
C4_Shape1Fields ==
  (DialogRead /\ WrittenAsShape(1)) =>
    /\ price_pc = "fallback" =>
         /\ price_record.Tax = SrcProfile.t
         /\ price_record.Total = SrcProfile.T
    /\ price_pc = "returned" =>
         price_extracted[1] =
           [GDSType |-> price_extracted[1].GDSType, FormulaType |-> 1,
            FareBasis |-> dialog_src.basis, BaseFare |-> SrcProfile.b,
            DiscountPct |-> SrcProfile.n, Discount |-> SrcProfile.d,
            PriceFactor |-> FactorValue(SrcProfile.f1), Tax |-> AfterFallback(SrcProfile.t, "tax"),
            TaxFactor |-> FactorValue(SrcProfile.f2), Fixed |-> SrcProfile.x,
            Total |-> AfterFallback(SrcProfile.T, "total")]
C4_Witness ==
  /\ price_pc = "returned" /\ DialogRead /\ WrittenAsShape(1)
  /\ dialog_src.profile = 1 /\ Styles[dialog_src.style].sep = <<FWComma>>
  /\ price_extracted[1].BaseFare = 4468 /\ price_extracted[1].DiscountPct = 3
  /\ price_extracted[1].Tax = 3840 /\ price_extracted[1].Total = 8346
  /\ price_extracted[1].PriceFactor = [neg |-> FALSE, m |-> 1021, e |-> 3]

\* C5: for every Shape 2 expression the record has type 2, the basis and base
\* fare of the inner group, the KP code, the discount, as price factor the
\* multiplier after the outer closing parenthesis (not the KP code), and a
\* fixed amount that is negative when written with a minus sign; the formula
\* step takes tax, tax factor and total from the same expression.
C5_Shape2Fields ==
  (DialogRead /\ WrittenAsShape(2)) =>
    /\ price_pc \in {"fallback", "returned"} =>
         /\ price_record.FormulaType = 2
         /\ price_record.FareBasis = dialog_src.basis
         /\ price_record.BaseFare = SrcProfile.b
         /\ price_record.DiscountPct = SrcProfile.n
         /\ price_record.Discount = SrcProfile.d
         /\ price_record.PriceFactor = FactorValue(SrcProfile.f1)
         /\ price_record.Fixed = SrcProfile.x
         /\ price_record.TaxFactor = FactorValue(SrcProfile.f2)
    /\ price_pc = "fallback" =>
         /\ price_record.Tax = SrcProfile.t
         /\ price_record.Total = SrcProfile.T
    /\ price_pc = "returned" => price_extracted[1] = price_record
C5_Witness ==
  /\ price_pc = "returned" /\ DialogRead /\ WrittenAsShape(2)
  /\ dialog_src.profile = 2
  /\ price_extracted[1].FormulaType = 2
  /\ price_extracted[1].Fixed = -100
  /\ price_extracted[1].DiscountPct = 5
  /\ price_extracted[1].PriceFactor = [neg |-> FALSE, m |-> 1, e |-> 0]

\* C6: the fallback search for the tax (total) label runs exactly when the tax
\* (total) is still 0 after the formula step, also when there is no formula
\* line; a non-zero tax or total of the formula is not changed, no other field
\* is changed, and a field that neither source gives stays 0.
C6_FallbackStep ==
  [][(price_pc = "fallback" /\ price_pc' = "returned") =>
       /\ ("tax" \in fallback_ran') <=> (price_record.Tax = 0)
       /\ ("total" \in fallback_ran') <=> (price_record.Total = 0)
       /\ price_record.Tax # 0 => price_record'.Tax = price_record.Tax
       /\ price_record.Total # 0 => price_record'.Total = price_record.Total
       /\ \A key \in PriceKeys \ {"Tax", "Total"} : price_record'[key] = price_record[key]
       /\ price_record.Tax = 0 =>
            price_record'.Tax = (IF "tax" \in dialog_src.labels THEN DialogLabels.tax ELSE 0)
       /\ price_record.Total = 0 =>
            price_record'.Total = (IF "total" \in dialog_src.labels THEN DialogLabels.total ELSE 0)
       /\ price_extracted' = <<price_record'>>]_vars
C6_Witness ==
  /\ price_pc = "returned" /\ DialogRead
  /\ dialog_src.formula /\ dialog_src.mutation = "none" /\ dialog_src.profile = 3
  /\ dialog_src.labels = {"tax"}
  /\ fallback_ran = {"tax", "total"}
  /\ price_extracted[1].Tax = 2534
  /\ price_extracted[1].Total = 0
  /\ price_extracted[1].BaseFare = 1234567

\* ------------------------------------------------------------------------
\* Properties of the flight-record assembler (SpecFlight)
\* ------------------------------------------------------------------------
SlotKeys(d, i) == {d} \X SegmentFields \X {i}
SlotEmpty(record, d, i) == \A key \in SlotKeys(d, i) : record[key] = <<>>
\* C7: on every normal return of extract_and_clean_flight_data the list holds
\* one record whose keys are exactly the 48 keys direction x field x 1..3,
\* whatever the blocks and rows of the card; every slot no segment was written
\* to holds the empty text, and with no journey block all 48 values are empty.
C7_RecordHas48Keys ==
  flight_pc = "returned" =>
    /\ Len(flight_extracted) = 1
    /\ DOMAIN flight_extracted[1] = FlightKeys
    /\ Cardinality(DOMAIN flight_extracted[1]) = 48
    /\ \A d \in Directions, i \in 1..3 :
         <<d, i>> \notin flight_trace.slots => SlotEmpty(flight_extracted[1], d, i)
    /\ n_tables = 0 => \A key \in FlightKeys : flight_extracted[1][key] = <<>>
C7_Witness ==
  /\ flight_pc = "returned"
  /\ n_tables = 3
  /\ flight_trace.slots = {<<Outbound, 1>>, <<Outbound, 2>>, <<Inbound, 1>>}
  /\ Cardinality(DOMAIN flight_extracted[1]) = 48
  /\ flight_extracted[1][<<Outbound, "flight_no", 1>>] = <<"B", "R", "1", "9", "8">>
  /\ flight_extracted[1][<<Inbound, "arr_time", 1>>]
       = <<"2", "0", "2", "6", "-", "0", "1", "-", "0", "1", " ", "0", "2", ":", "4", "0">>
  /\ SlotEmpty(flight_extracted[1], Outbound, 3)
  /\ SlotEmpty(flight_extracted[1], Inbound, 2)

\* C8: the index a segment is written with is always in 1..3 for each
\* direction, however many rows the blocks supply and also when two blocks have
\* the same direction; a row beyond the third of its direction is passed over
\* with no extraction, no write and no error, and the range check of
\* _write_segment_to_record never fails.
C8_SegmentIndexInRange ==
  [][/\ flight_trace'.last = "written" => flight_trace'.index \in 1..3
     /\ flight_trace'.last # "write_raised"
     /\ \A slot \in flight_trace'.slots : slot[2] \in 1..3
     /\ (flight_pc = "rows" /\ row_idx < rows.n /\ segment_index[direction] > 3) =>
          /\ flight_pc' = "rows"
          /\ row_idx' = row_idx + 1
          /\ flight_record' = flight_record
          /\ segment_index' = segment_index
          /\ flight_trace'.extractions = flight_trace.extractions]_vars
C8_Witness ==
  /\ flight_pc = "rows"
  /\ table_idx = 2
  /\ direction = Outbound
  /\ rows.n = 5 /\ row_idx = 5
  /\ flight_trace.last = "skipped"
  /\ flight_trace.extractions = 3
  /\ segment_index[Outbound] = 4
  /\ flight_trace.slots = {<<Outbound, 1>>, <<Outbound, 2>>, <<Outbound, 3>>}

\* C10: _determine_flight_direction gives inbound when a title of the block
\* contains the inbound marker; otherwise inbound when the class of the block
\* contains return_line; otherwise inbound exactly when the position is 1 and
\* outbound at every other position.
C10_DirectionByCues ==
  flight_pc = "rows" =>
    direction = (IF outer_table.cues.title THEN Inbound
                 ELSE IF outer_table.cues.class THEN Inbound
                 ELSE IF table_idx = 1 THEN Inbound
                 ELSE Outbound)
C10_Witness ==
  /\ flight_pc = "rows"
  /\ table_idx = 2
  /\ outer_table.cues.title /\ ~outer_table.cues.class
  /\ outer_table.class = PyNone
  /\ direction = Inbound

\* C11: for every segment row extract_and_clean_flight_data goes through (a row
\* with its four cells), a departure or arrival cell whose date-time text is
\* absent or cannot be parsed gives the empty text in that time field and no
\* exception leaves the assembler; a duration that cannot be parsed gives an
\* empty duration field and an airport text with no code an empty airport field.
RowExtracted == flight_trace'.extractions = flight_trace.extractions + 1
C11_SoftFailuresAbsorbed ==
  [][(RowExtracted /\ SegmentRows[flight_trace'.row].cells = SegmentCells) =>
       LET shows == SegmentRows[flight_trace'.row].shows
           slot == segment_index[direction]
       IN /\ flight_pc' # "raised"
          /\ flight_trace'.last = "written"
          /\ shows.dep_time # "ok" => flight_record'[<<direction, "dep_time", slot>>] = <<>>
          /\ shows.arr_time # "ok" => flight_record'[<<direction, "arr_time", slot>>] = <<>>
          /\ shows.duration # "ok" => flight_record'[<<direction, "duration", slot>>] = <<>>
          /\ shows.dep_airport # "ok" => flight_record'[<<direction, "dep_airport", slot>>] = <<>>
          /\ shows.arr_airport # "ok" => flight_record'[<<direction, "arr_airport", slot>>] = <<>>]_vars

\* ------------------------------------------------------------------------
\* Properties of the baggage reconciler (SpecBaggage)
\* ------------------------------------------------------------------------
\* The i-th row gone through, and the airports it was written for.
SeenRow(i) == BaggageRows[baggage_seen[i]]
RowRead(i) == SeenRow(i).cells = BaggageCells
PairAtSlot(d, slot, i) ==
  /\ SeenRow(i).dep # PyNone
  /\ current_flight_details[DepKey(d, slot)] = SeenRow(i).dep
  /\ current_flight_details[ArrKey(d, slot)] = SeenRow(i).arr
PairInDirection(d, i) == \E slot \in 1..3 : PairAtSlot(d, slot, i)
BaggageBreakpoints(i) ==
  {j \in 1..Len(breakpoint_log) : breakpoint_log[j][1] = "baggage" /\ breakpoint_log[j][2] = i}
Warned(i) == \E w \in 1..Len(printed_warnings) : printed_warnings[w] = SeenRow(i).flight_num_text

EarlierAssigned(d, i) == Cardinality({j \in 1..(i - 1) : baggage_assigned[j] = d})
StoredAs(d, i) ==
  /\ baggage_assigned[i] = d
  /\ BaggageKey(d, EarlierAssigned(d, i) + 1) \in DOMAIN card_baggage_info
  /\ card_baggage_info[BaggageKey(d, EarlierAssigned(d, i) + 1)] = SeenRow(i).allowance
\* C9 as stated: every row whose pair is that of some outbound slot is stored
\* as outbound baggage k, k being 1 plus the number of earlier outbound rows,
\* and every row whose pair is that of some inbound slot as inbound baggage k.
C9_MatchedRowAsStated ==
  \A i \in 1..Len(baggage_seen) :
    /\ (RowRead(i) /\ PairInDirection(Outbound, i)) => StoredAs(Outbound, i)
    /\ (RowRead(i) /\ PairInDirection(Inbound, i)) => StoredAs(Inbound, i)
\* The lowest slot of direction d with the pair of the i-th row (4: none).
FirstSlot(d, i) ==
  IF PairInDirection(d, i) THEN SetMin({slot \in 1..3 : PairAtSlot(d, slot, i)}) ELSE 4
\* C9 amended: a row whose pair is that of outbound slot s and of no inbound
\* slot below s is stored as outbound baggage k, k being 1 plus the number of
\* earlier outbound rows; a row whose pair is that of inbound slot s and of no
\* outbound slot up to s is stored as inbound baggage k with its own count.
C9_MatchedRowStored ==
  \A i \in 1..Len(baggage_seen) :
    /\ (RowRead(i) /\ PairInDirection(Outbound, i)
          /\ FirstSlot(Outbound, i) <= FirstSlot(Inbound, i)) => StoredAs(Outbound, i)
    /\ (RowRead(i) /\ PairInDirection(Inbound, i)
          /\ FirstSlot(Inbound, i) < FirstSlot(Outbound, i)) => StoredAs(Inbound, i)
C9_Witness ==
  /\ baggage_pc = "returned"
  /\ baggage_seen = <<1, 2, 1, 2>>
  /\ baggage_assigned = <<Outbound, Inbound, Outbound, Inbound>>
  /\ current_flight_details[<<Inbound, "dep_airport", 1>>] = <<"N", "R", "T">>
  /\ current_flight_details[<<Inbound, "dep_airport", 2>>] = <<>>
  /\ card_baggage_info[BaggageKey(Outbound, 2)] = <<"2", "3", "u516C", "u65A4">>
  /\ card_baggage_info[BaggageKey(Inbound, 2)] = <<"2", "u4EF6">>
  /\ outbound_baggage_counter = 2


\* C20: the segment index of each direction starts at 1 and goes up by exactly
\* 1 with the write of a fully extracted row, and at no other step; so at every
\* point of the assembly the slots of a direction that hold data are exactly
\* 1..index-1, a written slot is never written again, and a row is written to
\* the slot of the direction its own block was classified into.
WrittenSlots(record, d) == {i \in 1..3 : ~SlotEmpty(record, d, i)}
SlotsUnchanged(d) == \A key \in FlightKeys : key[1] = d => flight_record'[key] = flight_record[key]
C20_SegmentIndexIncrements ==
  /\ []((flight_pc = "tables" /\ table_idx = 0) => \A d \in Directions : segment_index[d] = 1)
  /\ [](flight_pc \in {"tables", "rows", "returned"} =>
          \A d \in Directions : WrittenSlots(flight_record, d) = 1..(segment_index[d] - 1))
  /\ [][flight_pc = "rows" =>
          \A d \in Directions :
            LET index == segment_index[d]
            IN \/ /\ segment_index'[d] = index
                  /\ SlotsUnchanged(d)
               \/ /\ segment_index'[d] = index + 1
                  /\ d = direction
                  /\ d = determine_flight_direction(outer_table, table_idx)
                  /\ RowExtracted /\ flight_pc' = "rows" /\ row_idx' = row_idx + 1
                  /\ SlotEmpty(flight_record, d, index)
                  /\ ~SlotEmpty(flight_record', d, index)
                  /\ \A key \in FlightKeys :
                       flight_record'[key] # flight_record[key] => key[1] = d /\ key[3] = index]_vars
C20_Witness ==
  /\ flight_pc = "rows"
  /\ table_idx = 2
  /\ direction = Inbound
  /\ flight_trace.last = "written"
  /\ flight_trace.index = 2
  /\ segment_index = [d \in Directions |-> IF d = Inbound THEN 3 ELSE 2]
  /\ WrittenSlots(flight_record, Inbound) = {1, 2}
  /\ WrittenSlots(flight_record, Outbound) = {1}

\* C14: every return of extract_and_clean_price_data (no driver, the wait for
\* the dialog timed out, no dialog element, no formula line, a formula of an
\* unknown shape, a formula of a known shape) gives a list of exactly one
\* record with exactly the 11 keys; on the three early returns every field has
\* its default and the formula type is -1.
ElevenKeys ==
  {"GDSType", "Tax", "Total", "FareBasis", "BaseFare", "DiscountPct", "Discount",
   "PriceFactor", "TaxFactor", "Fixed", "FormulaType"}
EarlyReturn == price_path \in {"no_driver", "wait_timeout", "modal_missing"}
C14_OneRecordElevenKeys ==
  price_pc = "returned" =>
    /\ Len(price_extracted) = 1
    /\ DOMAIN price_extracted[1] = ElevenKeys
    /\ Cardinality(DOMAIN price_extracted[1]) = 11
    /\ EarlyReturn =>
         LET record == price_extracted[1]
         IN /\ record.GDSType = <<>> /\ record.FareBasis = <<>>
            /\ \A k \in {"Tax", "Total", "BaseFare", "DiscountPct", "Discount", "Fixed"} :
                 record[k] = 0
            /\ record.PriceFactor = [neg |-> FALSE, m |-> 0, e |-> 0]
            /\ record.TaxFactor = [neg |-> FALSE, m |-> 0, e |-> 0]
            /\ record.FormulaType = -1
C14_Witness ==
  /\ price_pc = "returned"
  /\ price_path = "modal_missing"
  /\ dialog_src.formula
  /\ Len(price_extracted) = 1
  /\ price_extracted[1].FormulaType = -1

\* C17: a wait for the fare dialog DBGModal that times out makes the operation
\* fail: the call does not return normally and no row is appended for the
\* fare-option combination.
C17_WaitTimeoutSurfaces ==
  price_path = "wait_timeout" =>
    /\ price_pc # "returned"
    /\ collect_pc # "appended"
    /\ extracted_rows = <<>>

\* ------------------------------------------------------------------------
\* Properties of the table (SpecTable)
\* ------------------------------------------------------------------------
\* The group of a column: 1 the flight fields, 2 the price fields, 3 the
\* baggage fields, 4 the creation timestamp.
ColumnGroup(column) ==
  IF Len(column) = 1 THEN 4
  ELSE IF Len(column) = 2 THEN 2
  ELSE IF column[2] = "baggage" THEN 3
  ELSE 1
\* C15 as stated: in the table of build_dataframe all flight columns come
\* first, then the price fields, then the baggage fields, then the creation
\* timestamp.
C15_BaggageAfterPrice ==
  table_pc = "returned" =>
    \A j, k \in 1..Len(final_df.columns) :
      j < k => ColumnGroup(final_df.columns[j]) <= ColumnGroup(final_df.columns[k])
\* C15, amended: the table of build_dataframe has the same 66 columns in the
\* same order for an empty and a non-empty list of rows: for 去程 then 回程
\* and each segment 1..3 the eight flight fields of the segment followed by
\* the baggage column of that segment, then the eleven price fields, then the
\* creation timestamp.
C15_ColumnOrder ==
  table_pc = "returned" =>
    /\ Len(final_df.columns) = 66
    /\ \A n \in 0..1, i \in 1..3 :
         LET base == 27 * n + 9 * (i - 1)
             d == IF n = 0 THEN Outbound ELSE Inbound
         IN /\ \A k \in 1..8 : final_df.columns[base + k] = <<d, SegmentFieldOrder[k], i>>
            /\ final_df.columns[base + 9] = <<d, "baggage", i>>
    /\ \A k \in 1..54 : ColumnGroup(final_df.columns[k]) \in {1, 3}
    /\ \A k \in 1..11 : final_df.columns[54 + k] = <<"price", PriceFieldOrder[k]>>
    /\ final_df.columns[66] = <<"created_at">>
    /\ \A r \in 1..Len(final_df.rows) : Len(final_df.rows[r]) = 66
C15_Witness ==
  /\ table_pc = "returned"
  /\ Len(extracted_rows) = 2
  /\ Len(final_df.rows) = 2
  /\ final_df.columns[9] = <<Outbound, "baggage", 1>>
  /\ final_df.columns[55] = <<"price", "GDSType">>
  /\ final_df.rows[1][9] = <<"2", "3">> \o GongJin
  /\ final_df.rows[2][9] = Missing

\* C16: the table of build_dataframe has no two rows equal on all columns
\* (the creation timestamp among them); every input row, taken on the columns
\* of the table, is in it exactly once; and the rows are in the order of their
\* first occurrence in the input.
Projected(row) == [k \in 1..Len(final_df.columns) |-> Cell(row, final_df.columns[k])]
FirstOccurrence(values) ==
  SetMin({r \in 1..Len(extracted_rows) : Projected(extracted_rows[r]) = values})
C16_NoDuplicateRows ==
  table_pc = "returned" =>
    LET out == final_df.rows
    IN /\ \A j, k \in 1..Len(out) : j # k => out[j] # out[k]
       /\ \A r \in 1..Len(extracted_rows) :
            Cardinality({j \in 1..Len(out) : out[j] = Projected(extracted_rows[r])}) = 1
       /\ \A j \in 1..Len(out) :
            \E r \in 1..Len(extracted_rows) : out[j] = Projected(extracted_rows[r])
       /\ \A j, k \in 1..Len(out) :
            j < k => FirstOccurrence(out[j]) < FirstOccurrence(out[k])
C16_Witness ==
  /\ table_pc = "returned"
  /\ extracted_rows = <<TableRows[1], TableRows[2], TableRows[3]>>
  /\ Len(final_df.rows) = 2
  /\ final_df.rows[1][66] = 0
  /\ final_df.rows[2][66] = 1

\* ------------------------------------------------------------------------
\* Properties of the parsing functions (SpecParse)
\* ------------------------------------------------------------------------
Called(fn) == call_pc # "idle" /\ call.fn = fn
Returned(fn) == call_pc = "returned" /\ call.fn = fn
\* The calendar: the days of the months, and the date and time of a source.
MonthDays == <<31, 28, 31, 30, 31, 30, 31, 31, 30, 31, 30, 31>>
ValidDateTime(src, y) ==
  /\ src.mo \in 1..12
  /\ src.d >= 1
  /\ src.d <= MonthDays[src.mo]
                + (IF src.mo = 2 /\ y % 4 = 0 /\ (y % 100 # 0 \/ y % 400 = 0) THEN 1 ELSE 0)
  /\ src.h \in 0..23 /\ src.mi \in 0..59
\* C12: for a text "MM/DD(content) HH:MM" or "MM/DD HH:MM" of a valid date and
\* time of the year y, parse_date_time(text, y) returns the timestamp of year
\* y with that month, day, hour and minute, whatever the parenthesized
\* content; for a text that does not match once the parenthesized content is
\* removed, and for None, it raises ValueError and returns nothing.
C12_ParseDateTime ==
  (Called("parse_date_time") /\ call_pc # "called") =>
    /\ (call.kind = "form" /\ ValidDateTime(call.src, call.year)) =>
         /\ call_pc = "returned"
         /\ result = <<call.year, call.src.mo, call.src.d, call.src.h, call.src.mi>>
    /\ call.kind \in {"malformed", "none"} =>
         /\ call_pc = "raised"
         /\ result = <<"ValueError">>
C12_Witness ==
  /\ Returned("parse_date_time")
  /\ call.text = <<"0", "2", "/", "2", "9", "(", "W", "e", "d", ")", " ", "2", "3", ":", "5", "9">>
  /\ call.year = 2024
  /\ result = <<2024, 2, 29, 23, 59>>

\* C13: parse_int raises for no text (None, the empty text, separators only,
\* blanks, half-width and full-width commas, a minus sign, a decimal point):
\* it returns the integer value of the text without its blanks and commas, the
\* integer part when there is a decimal point, and 0 when what is left is not
\* a number.
C13_ParseIntTotal ==
  Called("parse_int") =>
    /\ call_pc # "raised"
    /\ call_pc = "returned" =>
         /\ call.kind = "number" =>
              result = <<IF call.src.neg THEN 0 - call.src.v ELSE call.src.v>>
         /\ call.kind \in {"not_number", "none"} => result = <<0>>
C13_Witness ==
  /\ Returned("parse_int")
  /\ call.text = <<" ", "-", "1", FWComma, "2", "3", "4", FWComma, "5", "6", "7", ".", "7", "5">>
  /\ result = <<-1234567>>

\* C18: parse_flight_and_cabin always returns a pair of texts.  A text CODE
\* NUMBER, cabin text, letter gives (CODE+NUMBER, cabin text+letter); any other
\* text with CODE NUMBER in it gives CODE+NUMBER and, when the text ends with
\* a word and a letter, that word+letter, otherwise the empty text; a text with
\* no CODE NUMBER gives (token 0, token 1+token 2) when it has three tokens or
\* more and (the trimmed text, "") when it has fewer; None and the empty text
\* give ("", "").
IsText(t) == \A i \in 1..Len(t) : t[i] \in AllChars
TwoDigits(v) == <<DigitChar(v \div 10), DigitChar(v % 10)>>
HoursOf(c) == IF c.kind \in {"h_m", "padded", "spaced", "hours"} THEN c.h ELSE 0
MinutesOf(c) == IF c.kind \in {"h_m", "padded", "spaced", "minutes"} THEN c.m ELSE 0
C19_DurationParseFormat ==
  /\ Returned("parse_duration_to_timedelta") =>
       LET minutes == 60 * HoursOf(call) + MinutesOf(call)
       IN result = <<minutes \div 1440, 60 * (minutes % 1440)>>
  /\ Called("format_timedelta_to_hhmm") => call_pc # "raised"
  /\ (Returned("format_timedelta_to_hhmm") /\ call.kind # "direct") =>
       result = IF HoursOf(call) = 0 /\ MinutesOf(call) = 0 THEN <<>>
                ELSE TwoDigits(HoursOf(call)) \o <<":">> \o TwoDigits(MinutesOf(call))
  /\ (Returned("format_timedelta_to_hhmm") /\ call.kind = "direct") =>
       IF call.td = PyNone THEN result = <<>>
       ELSE LET seconds == 86400 * call.td[1] + call.td[2]
            IN IF seconds < 60 THEN result = <<>>
               ELSE result = TwoDigits(seconds \div 3600) \o <<":">>
                             \o TwoDigits((seconds % 3600) \div 60)
C19_Witness ==
  /\ Returned("format_timedelta_to_hhmm")
  /\ call.kind = "h_m" /\ call.h = 3 /\ call.m = 25
  /\ call.td = <<0, 12300>>
  /\ result = <<"0", "3", ":", "2", "5">>

\* ------------------------------------------------------------------------
\* Properties of the readings of the flight-info cell (SpecRetry)
\* ------------------------------------------------------------------------
HasCandidate(p_texts) == FlightCandidates(p_texts) # <<>>
ReadingsStopAtFirstCandidate ==
  /\ Len(retry_reads) <= 3
  /\ \A i \in 1..Len(retry_reads) - 1 : ~HasCandidate(retry_reads[i])
  /\ retry_pc = "raised" => retry_reads = <<>>
  /\ retry_pc \in {"parse", "returned"} =>
       /\ retry_reads # <<>>
       /\ IF HasCandidate(retry_reads[Len(retry_reads)])
          THEN flight_and_cabin_text =
                 FlightCandidates(retry_reads[Len(retry_reads)])
                   [Len(FlightCandidates(retry_reads[Len(retry_reads)]))]
          ELSE Len(retry_reads) = 3 /\ flight_and_cabin_text = <<>>
  /\ retry_pc = "returned" =>
       /\ retry_result = parse_flight_and_cabin(flight_and_cabin_text)
       /\ ~HasCandidate(retry_reads[Len(retry_reads)]) => retry_result = <<<<>>, <<>>>>
\* C21: _extract_flight_and_cabin_info reads the flight-info cell at most 3
\* times; every reading before the last found no line with a flight-number
\* pattern; when the last reading found one, the last such line of that
\* reading is what is parsed and returned; when 3 readings found none, the
\* call returns ('', '') and does not raise; the call raises only when the row
\* has no td.cell_2, before any reading; and every call comes to an end.
C21_AtMostThreeReadings ==
  /\ []ReadingsStopAtFirstCandidate
  /\ <>(retry_pc \in {"returned", "raised"})
\* Two readings without a flight number, then one with two flight lines whose
\* last one is returned.
C21_Witness ==
  /\ retry_pc = "returned"
  /\ Len(retry_reads) = 3
  /\ retry_reads[1] = <<>>
  /\ retry_reads[2] = <<<<"E", "V", "A", " ", "A", "i", "r">>>>
  /\ retry_reads[3] = <<<<"B", "R", " ", "1", "0", "8", " ", "u7D93", "u6FDF", "u8259", "Q">>, <<"C", "I", "1", "0", "0">>, <<"E", "V", "A", " ", "A", "i", "r">>>>
  /\ retry_result = <<<<"C", "I", "1", "0", "0">>, <<>>>>
\* Three readings without a flight number: ('', '') is returned.
C21_WitnessExhausted ==
  /\ retry_pc = "returned"
  /\ Len(retry_reads) = 3
  /\ \A i \in 1..3 : ~HasCandidate(retry_reads[i])
  /\ retry_result = <<<<>>, <<>>>>

\* ------------------------------------------------------------------------
\* Properties of the loops of collect_all_flight_data (SpecCollect)
\* ------------------------------------------------------------------------
CombinationSteps == <<"select_return", "flight", "baggage", "price", "overlay", "append">>
StepNumber(step) == CHOOSE k \in 1..Len(CombinationSteps) : CombinationSteps[k] = step
OfCombination(e) == \E k \in 1..Len(CombinationSteps) : CombinationSteps[k] = e.step
SameCombination(e, f) == e.card = f.card /\ e.dep = f.dep /\ e.ret = f.ret
Before(e, f) ==
  \/ e.card < f.card
  \/ e.card = f.card /\ e.dep < f.dep
  \/ e.card = f.card /\ e.dep = f.dep /\ e.ret < f.ret
Appended == SelectSeq(loop_trace, LAMBDA e : e.step = "append")
Min(a, b) == IF a < b THEN a ELSE b
\* The combinations of the page the loops get to.
Processed ==
  {<<c, d, r>> \in (1..Len(flight_cards)) \X (1..MaxOptions) \X (1..MaxOptions) :
     /\ flight_cards[c].groups = 2
     /\ d <= Min(flight_cards[c].dep, flight_cards[c].dep_later)
     /\ r <= Min(flight_cards[c].ret, flight_cards[c].ret_later)}
LoginEnded == task_pc = "login_returned"
SomeAttemptAccepted == \E i \in 1..Len(login_attempts) : login_attempts[i] = "accepted"
\* C23: login_with_retry calls login_to_website at most max_retries + 1 times;
\* it declares failure and quits the driver only when the last call was
\* rejected with an alert; when a call was accepted without an alert, the
\* one of the max_retries-th retry included, it declares success and the
\* driver stays open.
C23_FailureOnlyAfterRejectedLogin ==
  /\ max_retries > 0 => Len(login_attempts) <= max_retries + 1
  /\ LoginEnded /\ login_declared = "failure" => AlertPresent(login_attempts)
  /\ LoginEnded /\ driver = "quit" => login_declared = "failure"
  /\ LoginEnded /\ SomeAttemptAccepted => login_declared = "success" /\ driver = "open"

\* C24: in run_scraping_task no use of the driver comes after login_with_retry
\* has quit it, and the call then ends with an exception raised to the caller.
C24_NoOperationOnClosedDriver ==
  /\ \A i \in 1..Len(driver_ops) : driver_ops[i].driver # "quit"
  /\ login_declared = "failure" /\ task_pc \in {"returned", "raised"} =>
       task_outcome = "RuntimeError"

TaskEnded == task_pc \in {"returned", "raised"}
ArgumentsGiven == \A a \in DOMAIN task_args : task_args[a] # <<>>
DriverCreated == driver # "none"
\* An exception was raised inside the try block.
RaisedInside ==
  \/ \E i \in 1..Len(login_attempts) : login_attempts[i] = "raised"
  \/ task_pc \in {"except", "login_raised"}
  \/ task_exception # "none"
\* C25: when run_scraping_task ends, a driver that was created has been quit,
\* whether the call returns or raises; with all four arguments given, the call
\* raises nothing but RuntimeError, and it does so whenever an exception was
\* raised in the creation of the driver, the login, a page operation, the
\* collection or the building of the table; with an empty argument it raises
\* ValueError and no driver is ever created.
C25_DriverQuitOnEveryPath ==
  /\ TaskEnded /\ DriverCreated => driver = "quit" /\ quit_calls >= 1
  /\ TaskEnded /\ ArgumentsGiven => task_outcome \in {"returned", "RuntimeError"}
  /\ TaskEnded /\ RaisedInside => task_outcome = "RuntimeError"
  /\ TaskEnded /\ task_outcome = "returned" =>
       /\ Len(driver_ops) >= Len(PageOperations) + 1
       /\ driver_ops[Len(driver_ops)].op = "collect"
  /\ ~ArgumentsGiven => ~DriverCreated /\ driver_ops = <<>>
  /\ TaskEnded /\ ~ArgumentsGiven => task_outcome = "ValueError"
\* The collection raises after a login accepted at the second attempt: the
\* driver is quit once and the call raises RuntimeError.
C25_Witness ==
  /\ task_pc = "raised"
  /\ task_outcome = "RuntimeError"
  /\ login_attempts = <<"alert", "accepted">>
  /\ Len(driver_ops) = 7
  /\ driver_ops[7] = [op |-> "collect", driver |-> "open"]
  /\ driver = "quit"
  /\ quit_calls = 1
\* An empty return date: ValueError, and no driver.
C25_WitnessEmptyArgument ==
  /\ task_pc = "raised"
  /\ task_outcome = "ValueError"
  /\ task_args["return_date"] = <<>>
  /\ task_args["origin_code"] # <<>>
  /\ driver = "none"

\* ------------------------------------------------------------------------
\* Further properties of the baggage reconciler (SpecBaggage)
\* ------------------------------------------------------------------------
AssignedRows == {i \in 1..Len(baggage_assigned) : baggage_assigned[i] \in Directions}
\* C26: a row whose airport pair is that of an outbound slot and of an inbound
\* slot gets the direction of the lowest of these slots, outbound when the
\* lowest outbound and inbound slots have the same number; the same row with
\* the same record always gets the same direction, and each row adds one key
\* to the mapping, of one direction.
C26_LowestSlotDecides ==
  /\ \A i \in 1..Len(baggage_seen) :
       (RowRead(i) /\ PairInDirection(Outbound, i) /\ PairInDirection(Inbound, i)) =>
         baggage_assigned[i] =
           IF FirstSlot(Outbound, i) <= FirstSlot(Inbound, i) THEN Outbound ELSE Inbound
  /\ \A i, j \in 1..Len(baggage_seen) :
       baggage_seen[i] = baggage_seen[j] => baggage_assigned[i] = baggage_assigned[j]
  /\ Cardinality(DOMAIN card_baggage_info) = Cardinality(AssignedRows)
  /\ outbound_baggage_counter + return_baggage_counter = Cardinality(AssignedRows)
\* The record has TPE-NRT, NRT-TPE outbound and NRT-TPE, TPE-NRT inbound: the
\* row NRT-TPE is inbound (inbound slot 1 before outbound slot 2), the row
\* TPE-NRT outbound (outbound slot 1 before inbound slot 2).
C26_Witness ==
  /\ baggage_pc = "returned"
  /\ baggage_seen = <<2, 1>>
  /\ FirstSlot(Outbound, 1) = 2 /\ FirstSlot(Inbound, 1) = 1
  /\ FirstSlot(Outbound, 2) = 1 /\ FirstSlot(Inbound, 2) = 2
  /\ baggage_assigned = <<Inbound, Outbound>>
  /\ DOMAIN card_baggage_info = {BaggageKey(Inbound, 1), BaggageKey(Outbound, 1)}
\* The record has TPE-NRT in slot 1 of both directions: the row is outbound.
C26_WitnessSameSlot ==
  /\ baggage_pc = "returned"
  /\ baggage_seen = <<1>>
  /\ FirstSlot(Outbound, 1) = 1 /\ FirstSlot(Inbound, 1) = 1
  /\ baggage_assigned = <<Outbound>>

FixedBaggageColumns == {BaggageKey(d, k) : d \in Directions, k \in 1..3}
\* C28: every key of the mapping the reconciler builds is one of the columns
\* outbound baggage 1..3 and inbound baggage 1..3 of column_order, the keys of
\* a direction being 1..k for some k, so that reindex keeps every one of them.
C28_KeysAreFixedColumns ==
  /\ DOMAIN card_baggage_info \subseteq FixedBaggageColumns
  /\ \A key \in DOMAIN card_baggage_info :
       \E c \in 1..Len(column_order) : column_order[c] = key
  /\ \A d \in Directions, k \in 1..MaxBaggageRows :
       BaggageKey(d, k) \in DOMAIN card_baggage_info =>
         \A j \in 1..k : BaggageKey(d, j) \in DOMAIN card_baggage_info

\* ------------------------------------------------------------------------
\* Further properties of the flight-record assembler (SpecFlight)
\* ------------------------------------------------------------------------
TimeFields == {"dep_time", "arr_time"}
\* The year of a search date 'YYYY/MM/DD', as the four digits of a timestamp.
SearchYear(d) == Pad4(IntVal(SplitHead(IF d = Outbound THEN start_date ELSE return_date, "/")))
\* C29: every non-empty departure or arrival time of an outbound slot of the
\* record begins with the year of start_date, every one of an inbound slot
\* with the year of return_date, whatever month and day the page shows.
C29_TimestampsCarrySearchYear ==
  \A key \in DOMAIN flight_record :
    (key[2] \in TimeFields /\ flight_record[key] # <<>>) =>
      /\ Len(flight_record[key]) = 16
      /\ SubSeq(flight_record[key], 1, 4) = SearchYear(key[1])
\* An outbound segment leaving on 12/31 and arriving on 01/01 has both times
\* in 2025, the year of start_date, and an inbound slot has a time in 2026.
C29_Witness ==
  /\ flight_pc = "returned"
  /\ \E k \in 1..MaxSegments :
       /\ flight_record[<<Outbound, "dep_time", k>>] = <<"2", "0", "2", "5", "-", "1", "2", "-", "3", "1", " ", "2", "3", ":", "0", "5">>
       /\ flight_record[<<Outbound, "arr_time", k>>] = <<"2", "0", "2", "5", "-", "0", "1", "-", "0", "1", " ", "0", "2", ":", "4", "0">>
  /\ \E k \in 1..MaxSegments :
       flight_record[<<Inbound, "arr_time", k>>] = <<"2", "0", "2", "6", "-", "1", "0", "-", "1", "5", " ", "1", "3", ":", "1", "5">>

\* ------------------------------------------------------------------------
\* Properties of the two flight-record assemblies (SpecBoth)
\* ------------------------------------------------------------------------
Ended(pc) == pc \in {"returned", "raised"}
\* C30: run on the same card and dates, the script of colatour_fetch_data.py
\* and the extractor of data_cleaner.py choose the same direction for each
\* block, write the same slots in the same order with the same values, raise
\* on the same rows, and return the same record of 48 keys.
C30_LegacyEquivalent ==
  /\ LegacySegmentData = SegmentData
  /\ LegacyCaughtUp =>
       /\ legacy_record = flight_record
       /\ legacy_segment_index = segment_index
       /\ legacy_pc = "rows" => legacy_direction = direction /\ legacy_rows = rows
       /\ Len(legacy_written) = Cardinality(flight_trace.slots)
       /\ {legacy_written[i] : i \in 1..Len(legacy_written)} = flight_trace.slots
       /\ (flight_pc = "rows" /\ flight_trace.last = "written" /\ row_idx > 0) =>
            legacy_written[Len(legacy_written)] = <<direction, flight_trace.index>>
  /\ Ended(legacy_pc) =>
       /\ legacy_pc = flight_pc
       /\ LegacyCaughtUp
       /\ legacy_results = flight_extracted
  /\ legacy_pc = "returned" =>
       /\ Len(legacy_results) = 1
       /\ DOMAIN legacy_results[1] = FlightKeys
\* Both have returned the record of a card of two blocks without return cue,
\* the first with two rows: idx is 2 after the first block and the second
\* block is inbound all the same.
C30_Witness ==
  /\ legacy_pc = "returned" /\ flight_pc = "returned"
  /\ legacy_written = <<<<Outbound, 1>>, <<Outbound, 2>>, <<Inbound, 1>>>>
  /\ legacy_results = flight_extracted
  /\ legacy_results[1][<<Inbound, "flight_no", 1>>] # <<>>
  /\ ~outer_table.cues.title /\ ~outer_table.cues.class
\* Both have raised on the same row.
C30_WitnessRaised ==
  /\ legacy_pc = "raised" /\ flight_pc = "raised"
  /\ legacy_written # <<>>
  /\ flight_trace.last = "extract_raised"

====
